---- MODULE Spec2Model ----
(***************************************************************************)
(* Verification model of the soldering-station control core.               *)
(*                                                                         *)
(*   LifecycleController  components/fsm_controller/fsm_controller.cpp     *)
(*   AxisController       components/stepper_motor/StepperMotor.cpp        *)
(*                                                                         *)
(* Enumerations keep the numeric values of the C enums, so that the        *)
(* comparisons against FSM_STATE_COUNT / FSM_EVENT_COUNT in the code are   *)
(* the comparisons made here.                                              *)
(***************************************************************************)
EXTENDS Integers, Sequences, FiniteSets, TLC

\* ------------------------------------------------------------------------
\* fsm_state_t (fsm_controller.h)
\* ------------------------------------------------------------------------
FSM_STATE_INIT == 0
FSM_STATE_IDLE == 1
FSM_STATE_MANUAL_CONTROL == 2
FSM_STATE_CALIBRATION == 3
FSM_STATE_READY == 4
FSM_STATE_HEATING == 5
FSM_STATE_EXECUTING == 6
FSM_STATE_PAUSED == 7
FSM_STATE_NORMAL_EXIT == 8
FSM_STATE_CALIBRATION_ERROR == 9
FSM_STATE_HEATING_ERROR == 10
FSM_STATE_DATA_ERROR == 11
FSM_STATE_LOCK == 12
FSM_STATE_COUNT == 13

\* ------------------------------------------------------------------------
\* fsm_event_t (fsm_controller.h)
\* ------------------------------------------------------------------------
FSM_EVENT_INIT_DONE == 0
FSM_EVENT_SELECT_MANUAL == 1
FSM_EVENT_EXIT_MANUAL == 2
FSM_EVENT_TASK_SENT == 3
FSM_EVENT_REQUEST_CALIBRATION == 4
FSM_EVENT_CALIBRATION_SUCCESS == 5
FSM_EVENT_CALIBRATION_ERROR == 6
FSM_EVENT_CANCEL_TASK == 7
FSM_EVENT_CALIBRATION_DONE == 8
FSM_EVENT_TASK_APPROVED == 9
FSM_EVENT_HEATING_SUCCESS == 10
FSM_EVENT_HEATING_ERROR == 11
FSM_EVENT_PAUSE_REQUEST == 12
FSM_EVENT_TASK_DONE == 13
FSM_EVENT_DATA_ERROR == 14
FSM_EVENT_EXIT_REQUEST == 15
FSM_EVENT_CONTINUE_TASK == 16
FSM_EVENT_COOLDOWN_COMPLETE == 17
FSM_EVENT_COOLING_ERROR == 18
FSM_EVENT_COUNT == 19

States == 0 .. (FSM_STATE_COUNT - 1)
Events == 0 .. (FSM_EVENT_COUNT - 1)

\* Length given to xQueueCreate in fsm_controller_init.
EVENT_QUEUE_LENGTH == 10

\* ------------------------------------------------------------------------
\* Bounds of the exploration
\* ------------------------------------------------------------------------
\* Transitions taken with statistics enabled (caps the uint32 counters).
MaxTransitions == 7
\* Largest iteration_count a hook stores in the execution context.
MaxIter == 1
\* Largest reading of the millisecond clock.
MaxTime == 1

\* ------------------------------------------------------------------------
\* State
\* ------------------------------------------------------------------------
VARIABLES
    config,            \* handle->config (the two flags the engine reads)
    current_state,     \* handle->current_state
    previous_state,    \* handle->previous_state
    is_running,        \* handle->is_running
    state_enter_time,  \* handle->state_enter_time
    event_queue,       \* contents of handle->event_queue, head first
    callbacks,         \* states with a non-NULL on_enter / on_exit / on_execute
    statistics,        \* handle->statistics
    exec_context,      \* handle->exec_context
    now,               \* esp_timer_get_time() / 1000
    last               \* observation of the last API call: op, the posted
                       \* event (arg), the value returned by a post or whether
                       \* the tick made a transition (ret), whether the tick
                       \* received an event (got), and the hook invocations
                       \* of the tick with what each hook saw on entry

fsm_vars == <<config, current_state, previous_state, is_running,
              state_enter_time, event_queue, callbacks, statistics,
              exec_context, now, last>>

\* Values that stand for "nothing" in observations and hook choices.
NoEvent == -1
NoWrite == "none"
NULL == 0

\* ------------------------------------------------------------------------
\* state_transitions[] and find_next_state
\* ------------------------------------------------------------------------
Rule(f, e, t) == [from_state |-> f, event |-> e, to_state |-> t]

\* Variant: the table with a recovery rule out of Lock.
state_transitions_recover ==
    << Rule(FSM_STATE_INIT, FSM_EVENT_INIT_DONE, FSM_STATE_IDLE),
       Rule(FSM_STATE_IDLE, FSM_EVENT_TASK_SENT, FSM_STATE_CALIBRATION),
       Rule(FSM_STATE_CALIBRATION, FSM_EVENT_CALIBRATION_ERROR, FSM_STATE_CALIBRATION_ERROR),
       Rule(FSM_STATE_CALIBRATION_ERROR, FSM_EVENT_CALIBRATION_ERROR, FSM_STATE_LOCK),
       Rule(FSM_STATE_LOCK, FSM_EVENT_INIT_DONE, FSM_STATE_IDLE) >>

state_transitions ==
    << Rule(FSM_STATE_INIT, FSM_EVENT_INIT_DONE, FSM_STATE_IDLE),
       Rule(FSM_STATE_IDLE, FSM_EVENT_SELECT_MANUAL, FSM_STATE_MANUAL_CONTROL),
       Rule(FSM_STATE_IDLE, FSM_EVENT_TASK_SENT, FSM_STATE_CALIBRATION),
       Rule(FSM_STATE_IDLE, FSM_EVENT_REQUEST_CALIBRATION, FSM_STATE_CALIBRATION),
       Rule(FSM_STATE_MANUAL_CONTROL, FSM_EVENT_EXIT_MANUAL, FSM_STATE_IDLE),
       Rule(FSM_STATE_CALIBRATION, FSM_EVENT_CALIBRATION_SUCCESS, FSM_STATE_READY),
       Rule(FSM_STATE_CALIBRATION, FSM_EVENT_CALIBRATION_ERROR, FSM_STATE_CALIBRATION_ERROR),
       Rule(FSM_STATE_READY, FSM_EVENT_CANCEL_TASK, FSM_STATE_IDLE),
       Rule(FSM_STATE_READY, FSM_EVENT_CALIBRATION_DONE, FSM_STATE_IDLE),
       Rule(FSM_STATE_READY, FSM_EVENT_TASK_APPROVED, FSM_STATE_HEATING),
       Rule(FSM_STATE_HEATING, FSM_EVENT_HEATING_SUCCESS, FSM_STATE_EXECUTING),
       Rule(FSM_STATE_HEATING, FSM_EVENT_HEATING_ERROR, FSM_STATE_HEATING_ERROR),
       Rule(FSM_STATE_EXECUTING, FSM_EVENT_PAUSE_REQUEST, FSM_STATE_PAUSED),
       Rule(FSM_STATE_EXECUTING, FSM_EVENT_TASK_DONE, FSM_STATE_NORMAL_EXIT),
       Rule(FSM_STATE_EXECUTING, FSM_EVENT_HEATING_ERROR, FSM_STATE_HEATING_ERROR),
       Rule(FSM_STATE_EXECUTING, FSM_EVENT_DATA_ERROR, FSM_STATE_DATA_ERROR),
       Rule(FSM_STATE_PAUSED, FSM_EVENT_EXIT_REQUEST, FSM_STATE_NORMAL_EXIT),
       Rule(FSM_STATE_PAUSED, FSM_EVENT_CONTINUE_TASK, FSM_STATE_HEATING),
       Rule(FSM_STATE_NORMAL_EXIT, FSM_EVENT_COOLDOWN_COMPLETE, FSM_STATE_IDLE),
       Rule(FSM_STATE_NORMAL_EXIT, FSM_EVENT_COOLING_ERROR, FSM_STATE_HEATING_ERROR),
       Rule(FSM_STATE_CALIBRATION_ERROR, FSM_EVENT_CALIBRATION_ERROR, FSM_STATE_LOCK),
       Rule(FSM_STATE_HEATING_ERROR, FSM_EVENT_HEATING_ERROR, FSM_STATE_LOCK),
       Rule(FSM_STATE_DATA_ERROR, FSM_EVENT_DATA_ERROR, FSM_STATE_LOCK) >>

NUM_TRANSITIONS == Len(state_transitions)

\* Variant: the loop compares the state only.
RECURSIVE find_from_any_event(_, _, _)
find_from_any_event(i, state, event) ==
    IF i > NUM_TRANSITIONS THEN FSM_STATE_COUNT
    ELSE IF state_transitions[i].from_state = state
         THEN state_transitions[i].to_state
         ELSE find_from_any_event(i + 1, state, event)

\* The for loop of find_next_state, from index i on: first match wins,
\* FSM_STATE_COUNT when the table is exhausted.
RECURSIVE find_from(_, _, _)
find_from(i, state, event) ==
    IF i > NUM_TRANSITIONS THEN FSM_STATE_COUNT
    ELSE IF state_transitions[i].from_state = state /\ state_transitions[i].event = event
         THEN state_transitions[i].to_state
         ELSE find_from(i + 1, state, event)

find_next_state(state, event) == find_from(1, state, event)

\* ------------------------------------------------------------------------
\* Event queue (xQueueCreate / xQueueSend / xQueueReceive, zero wait)
\* ------------------------------------------------------------------------
\* Variant: the item is put at the front (xQueueSendToFront).
xQueueSend_front(q, e) ==
    IF Len(q) < EVENT_QUEUE_LENGTH
    THEN [ok |-> TRUE, queue |-> <<e>> \o q]
    ELSE [ok |-> FALSE, queue |-> q]

\* xQueueSend(queue, &event, 0): pdTRUE and the item at the back when there
\* is room, errQUEUE_FULL (and no wait) otherwise.
xQueueSend(q, e) ==
    IF Len(q) < EVENT_QUEUE_LENGTH
    THEN [ok |-> TRUE, queue |-> Append(q, e)]
    ELSE [ok |-> FALSE, queue |-> q]

\* xQueueReceive(queue, &event, 0): the item at the front, if any.
xQueueReceive(q) ==
    IF Len(q) > 0
    THEN [ok |-> TRUE, event |-> Head(q), queue |-> Tail(q)]
    ELSE [ok |-> FALSE, event |-> NoEvent, queue |-> q]

\* Variant: the result of xQueueSend is not looked at.
post_event_unchecked(q, event) ==
    IF event >= FSM_EVENT_COUNT
    THEN [ok |-> FALSE, queue |-> q]
    ELSE [ok |-> TRUE, queue |-> xQueueSend(q, event).queue]

\* Body of fsm_controller_post_event on queue q: range check, then send.
post_event(q, event) ==
    IF event >= FSM_EVENT_COUNT
    THEN [ok |-> FALSE, queue |-> q]
    ELSE xQueueSend(q, event)


\* ------------------------------------------------------------------------
\* Statistics and execution context
\* ------------------------------------------------------------------------
\* The uint32_t counters and clock readings explored here stay below
\* MaxTransitions and MaxTime, far from the wrap at 2^32, so their
\* arithmetic is written as integer arithmetic.

\* memset(&handle->statistics, 0, ...)
ZeroStatistics ==
    [ state_enter_count |-> [s \in States |-> 0],
      state_duration_ms |-> [s \in States |-> 0],
      last_state_enter_time |-> 0,
      error_count |-> 0,
      task_completed_count |-> 0 ]

\* memset(&handle->exec_context, 0, ...)
ZeroContext ==
    [ start_time_ms |-> 0, iteration_count |-> 0,
      operation_complete |-> FALSE, user_context |-> NULL ]

\* Variant: Lock is not among the tracked states.
is_error_entry_no_lock(new_state) ==
    \/ new_state = FSM_STATE_CALIBRATION_ERROR
    \/ new_state = FSM_STATE_HEATING_ERROR
    \/ new_state = FSM_STATE_DATA_ERROR

\* "Track errors" predicate of transition_to_state.
is_error_entry(new_state) ==
    \/ new_state = FSM_STATE_CALIBRATION_ERROR
    \/ new_state = FSM_STATE_HEATING_ERROR
    \/ new_state = FSM_STATE_DATA_ERROR
    \/ new_state = FSM_STATE_LOCK

\* Variant: every entry into Idle counts as a completed task.
is_task_completion_any(old_state, new_state) == new_state = FSM_STATE_IDLE

\* "Track completed tasks" predicate of transition_to_state.
is_task_completion(old_state, new_state) ==
    new_state = FSM_STATE_IDLE /\ old_state = FSM_STATE_NORMAL_EXIT

\* handle->statistics.state_enter_count[new_state]++
bump_enter_count(cnt, new_state) ==
    [cnt EXCEPT ![new_state] = (@ + 1)]

\* Variant: the entry is counted for the state that is left.
update_statistics_old(st, enter_time, old_state, new_state, t) ==
    [ st EXCEPT
        !.state_duration_ms[old_state] = (@ + (t - enter_time)),
        !.state_enter_count = bump_enter_count(@, old_state),
        !.error_count = IF is_error_entry(new_state) THEN (@ + 1) ELSE @,
        !.task_completed_count =
            IF is_task_completion(old_state, new_state) THEN (@ + 1) ELSE @ ]

\* The "Update statistics" block of transition_to_state, taken when
\* config.enable_statistics is set; t is the clock reading.
update_statistics(st, enter_time, old_state, new_state, t) ==
    [ st EXCEPT
        !.state_duration_ms[old_state] = (@ + (t - enter_time)),
        !.state_enter_count = bump_enter_count(@, new_state),
        !.error_count = IF is_error_entry(new_state) THEN (@ + 1) ELSE @,
        !.task_completed_count =
            IF is_task_completion(old_state, new_state) THEN (@ + 1) ELSE @ ]

\* "Reset execution context for new state": memset, then the start time.
reset_context(t) == [ZeroContext EXCEPT !.start_time_ms = t]

\* ------------------------------------------------------------------------
\* Hooks
\* ------------------------------------------------------------------------
\* A hook is opaque code.  What it can do to the controller goes through the
\* API handed to callbacks: write the fields of the execution context
\* (fsm_controller_get_execution_context) and post events.  One invocation
\* is described by a choice c = [write, post]; posts made by other tasks
\* while the hook runs are the same queue operation and are covered by the
\* same choice.  The write "fail" stands for a hook that stores nothing
\* and returns false.
HookKinds == {"on_enter", "on_exit", "on_execute"}

NoChoice == [write |-> NoWrite, post |-> NoEvent]

HookWrite(ctx, w) ==
    CASE w = "iter"     -> [ctx EXCEPT !.iteration_count = @ + 1]
      [] w = "complete" -> [ctx EXCEPT !.operation_complete = TRUE]
      [] w = "user"     -> [ctx EXCEPT !.user_context = 1]
      [] w = "all"      -> [ctx EXCEPT !.iteration_count = @ + 1,
                                       !.operation_complete = TRUE,
                                       !.user_context = 1]
      [] OTHER          -> ctx

\* The controller as one value, so that the stages of a tick compose.
\* hooks is the record of the hook invocations made so far in this call.
Handle ==
    [ config |-> config, current_state |-> current_state,
      previous_state |-> previous_state, is_running |-> is_running,
      state_enter_time |-> state_enter_time, event_queue |-> event_queue,
      callbacks |-> callbacks, statistics |-> statistics,
      exec_context |-> exec_context, hooks |-> <<>> ]

\* if (callbacks[state].<kind>) callbacks[state].<kind>(user_data);
\* the returned bool is only logged.
InvokeHook(h, kind, state, c) ==
    IF state \notin h.callbacks[kind] THEN h
    ELSE [ h EXCEPT
             !.hooks = Append(@, [ kind |-> kind, state |-> state,
                                   seen_state |-> h.current_state,
                                   seen_context |-> h.exec_context,
                                   seen_statistics |-> h.statistics,
                                   returned |-> (c.write # "fail") ]),
             !.exec_context = HookWrite(@, c.write),
             !.event_queue = IF c.post = NoEvent THEN @
                             ELSE post_event(@, c.post).queue ]

\* Choices open to the hook <kind> of <state> on handle h: writes from W,
\* posts from P while fewer than B events are pending.
HookChoices(h, kind, state, W, P, B) ==
    IF state \notin h.callbacks[kind] THEN {NoChoice}
    ELSE { c \in [write : W \cup {NoWrite}, post : P \cup {NoEvent}] :
             /\ c.write \in {"iter", "all"}
                   => h.exec_context.iteration_count < MaxIter
             /\ c.post # NoEvent => Len(h.event_queue) < B }

\* ------------------------------------------------------------------------
\* transition_to_state, in its three stages
\* ------------------------------------------------------------------------
\* Exit callback of the current state.
transition_exit(h, cx) == InvokeHook(h, "on_exit", h.current_state, cx)

\* Variant: the context is not cleared, only its start time is set.
transition_switch_keep(h, new_state, t) ==
    LET old_state == h.current_state
        st == IF h.config.enable_statistics
              THEN update_statistics(h.statistics, h.state_enter_time,
                                     old_state, new_state, t)
              ELSE h.statistics
    IN [ h EXCEPT !.statistics = st,
                  !.previous_state = old_state,
                  !.current_state = new_state,
                  !.state_enter_time = t,
                  !.exec_context.start_time_ms = t ]

\* Statistics, state update and context reset.
transition_switch(h, new_state, t) ==
    LET old_state == h.current_state
        st == IF h.config.enable_statistics
              THEN update_statistics(h.statistics, h.state_enter_time,
                                     old_state, new_state, t)
              ELSE h.statistics
    IN [ h EXCEPT !.statistics = st,
                  !.previous_state = old_state,
                  !.current_state = new_state,
                  !.state_enter_time = t,
                  !.exec_context = reset_context(t) ]

\* Enter callback of the new state.
transition_enter(h, ce) == InvokeHook(h, "on_enter", h.current_state, ce)

\* Variant: the enter callback runs before the state is switched.
transition_to_state_enter_first(h, new_state, t, cx, ce) ==
    IF new_state >= FSM_STATE_COUNT THEN h
    ELSE transition_switch(
             InvokeHook(transition_exit(h, cx), "on_enter", new_state, ce),
             new_state, t)

transition_to_state(h, new_state, t, cx, ce) ==
    IF new_state >= FSM_STATE_COUNT THEN h
    ELSE transition_enter(transition_switch(transition_exit(h, cx), new_state, t), ce)

\* ------------------------------------------------------------------------
\* fsm_controller_process
\* ------------------------------------------------------------------------
\* Variant: the state is read before the event is processed.
execute_hook_state_before(before, after) == before.current_state

\* State whose execute callback the tick runs: handle->current_state, read
\* after the event has been processed (before is the handle at entry).
execute_hook_state(before, after) == after.current_state

\* The handle after the event part of the tick: one receive, the lookup,
\* and the transition when the lookup found a rule.
process_event(h, t, cx, ce) ==
    LET r  == xQueueReceive(h.event_queue)
        h0 == [h EXCEPT !.event_queue = r.queue]
    IN IF r.ok
       THEN transition_to_state(h0, find_next_state(h.current_state, r.event), t, cx, ce)
       ELSE h0

process_execute(h, h1, cu) ==
    InvokeHook(h1, "on_execute", execute_hook_state(h, h1), cu)


\* ------------------------------------------------------------------------
\* Actions of the lifecycle controller
\* ------------------------------------------------------------------------
handle_vars == <<config, current_state, previous_state, is_running,
                 state_enter_time, event_queue, callbacks, statistics,
                 exec_context>>

SetHandle(h) ==
    /\ config' = h.config
    /\ current_state' = h.current_state
    /\ previous_state' = h.previous_state
    /\ is_running' = h.is_running
    /\ state_enter_time' = h.state_enter_time
    /\ event_queue' = h.event_queue
    /\ callbacks' = h.callbacks
    /\ statistics' = h.statistics
    /\ exec_context' = h.exec_context

\* Observation left by a call that returns nothing the properties look at.
Quiet == [op |-> "none", arg |-> NoEvent, ret |-> FALSE, got |-> FALSE, hooks |-> <<>>]

RECURSIVE SumOver(_, _)
SumOver(f, S) ==
    IF S = {} THEN 0
    ELSE LET x == CHOOSE y \in S : TRUE IN f[x] + SumOver(f, S \ {x})

\* fsm_controller_init: the handle after construction, for either value of
\* config.enable_statistics and config.enable_logging = true.
InitFsm ==
    /\ config \in [enable_logging : {TRUE}, enable_statistics : BOOLEAN]
    /\ current_state = FSM_STATE_INIT
    /\ previous_state = FSM_STATE_INIT
    /\ is_running = FALSE
    /\ now = 0
    /\ state_enter_time = now
    /\ event_queue = <<>>
    /\ callbacks = [k \in HookKinds |-> {}]
    /\ statistics = ZeroStatistics
    /\ exec_context = ZeroContext
    /\ last = Quiet

\* fsm_controller_start: set running, post INIT_DONE.
fsm_controller_start ==
    LET r == post_event(event_queue, FSM_EVENT_INIT_DONE) IN
    /\ is_running' = TRUE
    /\ event_queue' = r.queue
    /\ last' = [op |-> "start", arg |-> FSM_EVENT_INIT_DONE, ret |-> r.ok,
                got |-> FALSE, hooks |-> <<>>]
    /\ UNCHANGED <<config, current_state, previous_state, state_enter_time,
                   callbacks, statistics, exec_context, now>>

\* fsm_controller_stop
fsm_controller_stop ==
    /\ is_running' = FALSE
    /\ last' = Quiet
    /\ UNCHANGED <<config, current_state, previous_state, state_enter_time,
                   event_queue, callbacks, statistics, exec_context, now>>

\* fsm_controller_post_event(handle, event), called by another task.
fsm_controller_post_event(event) ==
    LET r == post_event(event_queue, event) IN
    /\ event_queue' = r.queue
    /\ last' = [op |-> "post", arg |-> event, ret |-> r.ok,
                got |-> FALSE, hooks |-> <<>>]
    /\ UNCHANGED <<config, current_state, previous_state, is_running,
                   state_enter_time, callbacks, statistics, exec_context, now>>

\* fsm_state_color_t
FSM_COLOR_YELLOW == 0
FSM_COLOR_GREEN == 1
FSM_COLOR_RED == 2
FSM_COLOR_ASH == 3
FSM_COLOR_OTHER == 4

\* fsm_controller_get_state_color: the switch, group by group.
fsm_controller_get_state_color(state) ==
    CASE state \in {FSM_STATE_IDLE, FSM_STATE_READY, FSM_STATE_PAUSED,
                    FSM_STATE_LOCK} -> FSM_COLOR_YELLOW
      [] state \in {FSM_STATE_CALIBRATION, FSM_STATE_HEATING,
                    FSM_STATE_EXECUTING, FSM_STATE_NORMAL_EXIT} -> FSM_COLOR_YELLOW
      [] state \in {FSM_STATE_CALIBRATION_ERROR, FSM_STATE_HEATING_ERROR,
                    FSM_STATE_DATA_ERROR} -> FSM_COLOR_RED
      [] state = FSM_STATE_INIT -> FSM_COLOR_ASH
      [] state = FSM_STATE_MANUAL_CONTROL -> FSM_COLOR_OTHER
      [] OTHER -> FSM_COLOR_OTHER

\* fsm_controller_is_in_error for a handle in the given state.
fsm_controller_is_in_error(state) ==
    \/ state = FSM_STATE_CALIBRATION_ERROR
    \/ state = FSM_STATE_HEATING_ERROR
    \/ state = FSM_STATE_DATA_ERROR
    \/ state = FSM_STATE_LOCK

\* fsm_controller_register_{enter,exit,execute}_callback for one state.
register_callback(cb, kind, state) ==
    IF state >= FSM_STATE_COUNT THEN cb
    ELSE [cb EXCEPT ![kind] = @ \cup {state}]

RECURSIVE register_all(_, _, _)
register_all(cb, kind, S) ==
    IF S = {} THEN cb
    ELSE LET s == CHOOSE x \in S : TRUE
         IN register_all(register_callback(cb, kind, s), kind, S \ {s})

\* The registration calls as the start-up code makes them, one call per
\* kind of K and state of S (an out-of-range state is refused).
register_kinds(cb, K, S) ==
    [k \in HookKinds |-> IF k \in K THEN register_all(cb, k, S)[k] ELSE cb[k]]

fsm_controller_register_callbacks(K, S) ==
    /\ callbacks' = register_kinds(callbacks, K, S)
    /\ callbacks' # callbacks
    /\ last' = Quiet
    /\ UNCHANGED <<config, current_state, previous_state, is_running,
                   state_enter_time, event_queue, statistics, exec_context, now>>

\* fsm_controller_reset_statistics
fsm_controller_reset_statistics ==
    /\ statistics # ZeroStatistics
    /\ statistics' = ZeroStatistics
    /\ last' = Quiet
    /\ UNCHANGED <<config, current_state, previous_state, is_running,
                   state_enter_time, event_queue, callbacks, exec_context, now>>

\* The millisecond clock advances.
AdvanceTime ==
    /\ now < MaxTime
    /\ now' = now + 1
    /\ last' = Quiet
    /\ UNCHANGED handle_vars

\* fsm_controller_process: one tick of the control task.  W, P and B are
\* the writes and posts open to the hooks it calls and the backlog at which
\* they stop posting.
fsm_controller_process(W, P, B) ==
    LET h == Handle IN
    IF ~h.is_running
    THEN /\ last' = [op |-> "process", arg |-> NoEvent, ret |-> FALSE,
                     got |-> FALSE, hooks |-> <<>>]
         /\ UNCHANGED <<handle_vars, now>>
    ELSE
      LET r     == xQueueReceive(h.event_queue)
          next  == IF r.ok THEN find_next_state(h.current_state, r.event)
                   ELSE FSM_STATE_COUNT
          moves == next < FSM_STATE_COUNT
          hr    == [h EXCEPT !.event_queue = r.queue]
      IN
      /\ (moves /\ h.config.enable_statistics)
            => SumOver(h.statistics.state_enter_count, States) < MaxTransitions
      /\ \E cx \in (IF moves THEN HookChoices(hr, "on_exit", h.current_state, W, P, B)
                    ELSE {NoChoice}) :
           LET hs == IF moves
                     THEN transition_switch(transition_exit(hr, cx), next, now)
                     ELSE hr
           IN
           \E ce \in (IF moves THEN HookChoices(hs, "on_enter", next, W, P, B)
                      ELSE {NoChoice}) :
             LET h1 == process_event(h, now, cx, ce) IN
             \E cu \in HookChoices(h1, "on_execute", execute_hook_state(h, h1), W, P, B) :
               LET h2 == process_execute(h, h1, cu) IN
               /\ SetHandle(h2)
               /\ last' = [op |-> "process", arg |-> NoEvent, ret |-> moves,
                           got |-> r.ok, hooks |-> h2.hooks]
               /\ UNCHANGED now

\* ------------------------------------------------------------------------
\* Inputs
\* ------------------------------------------------------------------------
\* Arguments of postEvent: every event, and one value out of range.
EventInputs == Events \cup {FSM_EVENT_COUNT}
\* What a hook stores in the execution context.
ContextWrites == {"all"}
\* Registration batches: every state, and one value out of range.
RegisterInputs == {States \cup {FSM_STATE_COUNT}}
\* Events posted by hooks: those the hooks of main.cpp post.
HookEvents ==
    { FSM_EVENT_CALIBRATION_SUCCESS, FSM_EVENT_HEATING_SUCCESS,
      FSM_EVENT_HEATING_ERROR, FSM_EVENT_DATA_ERROR, FSM_EVENT_TASK_DONE,
      FSM_EVENT_COOLDOWN_COMPLETE, FSM_EVENT_COOLING_ERROR }
\* What a hook does when it may also fail.
FailingWrites == {"all", "fail"}
\* Events of the producers that are left to fill the queue.
QueueEvents == {FSM_EVENT_INIT_DONE, FSM_EVENT_TASK_SENT}


\* ========================================================================
\* AxisController (StepperMotor over the stepper HAL)
\* ========================================================================
\* stepper_direction_t
STEPPER_DIR_CLOCKWISE == 0
STEPPER_DIR_COUNTERCLOCKWISE == 1
Directions == {STEPPER_DIR_CLOCKWISE, STEPPER_DIR_COUNTERCLOCKWISE}

\* Step burst of the calibration loop.
CALIBRATE_BURST == 50

\* Bounds of the exploration
\* Largest magnitude of a requested target.
MaxCoord == 3
\* Largest step budget passed to stepMultiple / stepMultipleToTarget.
MaxSteps == 2
\* Largest magnitude the tracked position is followed to.
MaxPosition == 5
\* Bursts one calibrate() call is followed for.
MaxBursts == 2

VARIABLES
    position_,            \* StepperMotor::position_
    target_position_,     \* StepperMotor::target_position_
    handle_,              \* StepperMotor::handle_ != nullptr
    positive_direction_,  \* StepperMotor::positive_direction_
    hal_is_enabled,       \* handle->is_enabled
    hal_direction,        \* handle->direction
    has_endpoint,         \* a limit switch is wired to the axis
    switch_low,           \* the limit-switch input reads low
    calibrating,          \* the control task is inside calibrate()'s loop
    ennable_state,        \* local of calibrate() of the same name
    calib_bursts,         \* bursts stepped by the calibrate() call in progress
    axis_call             \* the last axis operation called and its argument

axis_vars == <<position_, target_position_, handle_, positive_direction_,
               hal_is_enabled, hal_direction, has_endpoint, switch_low,
               calibrating, ennable_state, calib_bursts, axis_call>>

\* Positions, targets and step counts explored here stay within
\* MaxPosition, MaxCoord and MaxSteps, far from the int32_t limits, so
\* their arithmetic is written as integer arithmetic.

Max(a, b) == IF a >= b THEN a ELSE b
Min(a, b) == IF a <= b THEN a ELSE b
Abs(x) == IF x < 0 THEN -x ELSE x

\* stepper_motor_hal_endpoint_reached: the switch is active low; an axis
\* without a switch never reports it.
stepper_motor_hal_endpoint_reached == has_endpoint /\ switch_low

\* StepperMotor::isEndpointReached
isEndpointReached == handle_ /\ stepper_motor_hal_endpoint_reached

\* Variant: the value is stored as given.
clamp_target_none(position) == position

\* Value stored by setTargetPosition: std::max(int32_t(0), position).
clamp_target(position) == Max(0, position)

\* position_ after "position_ += steps" / "position_ -= steps" with the
\* HAL direction d.
moved_position(pos, d, steps) ==
    IF d = STEPPER_DIR_CLOCKWISE THEN (pos + steps) ELSE (pos - steps)

Call(op, arg) == [op |-> op, arg |-> arg]

\* StepperMotor constructor: position and target 0; the HAL handle starts
\* disabled and clockwise, or is null when the HAL initialisation failed.
InitAxis ==
    /\ position_ = 0
    /\ target_position_ = 0
    /\ handle_ \in BOOLEAN
    /\ positive_direction_ \in Directions
    /\ hal_is_enabled = FALSE
    /\ hal_direction = STEPPER_DIR_CLOCKWISE
    /\ has_endpoint \in BOOLEAN
    /\ switch_low \in BOOLEAN
    /\ calibrating = FALSE
    /\ ennable_state = FALSE
    /\ calib_bursts = 0
    /\ axis_call = Call("constructor", 0)

\* StepperMotor::setTargetPosition
setTargetPosition(position) ==
    /\ axis_call' = Call("setTargetPosition", position)
    /\ ~calibrating
    /\ target_position_' = IF handle_ THEN clamp_target(position) ELSE target_position_
    /\ UNCHANGED <<position_, handle_, positive_direction_, hal_is_enabled,
                   hal_direction, has_endpoint, switch_low, calibrating,
                   ennable_state, calib_bursts>>

\* StepperMotor::setEnable
setEnable(enable) ==
    /\ axis_call' = Call("setEnable", IF enable THEN 1 ELSE 0)
    /\ ~calibrating
    /\ hal_is_enabled' = IF handle_ THEN enable ELSE hal_is_enabled
    /\ UNCHANGED <<position_, target_position_, handle_, positive_direction_,
                   hal_direction, has_endpoint, switch_low, calibrating,
                   ennable_state, calib_bursts>>

\* StepperMotor::setDirection
setDirection(d) ==
    /\ axis_call' = Call("setDirection", d)
    /\ ~calibrating
    /\ hal_direction' = IF handle_ THEN d ELSE hal_direction
    /\ UNCHANGED <<position_, target_position_, handle_, positive_direction_,
                   hal_is_enabled, has_endpoint, switch_low, calibrating,
                   ennable_state, calib_bursts>>

\* Position after StepperMotor::stepMultiple(steps) with HAL direction d:
\* counted first, zeroed when the switch reads triggered afterwards.
stepMultiple_position(pos, d, steps) ==
    IF isEndpointReached THEN 0 ELSE moved_position(pos, d, steps)

\* StepperMotor::step
step ==
    /\ axis_call' = Call("step", 0)
    /\ ~calibrating
    /\ handle_
    /\ position_' = moved_position(position_, hal_direction, 1)
    /\ -MaxPosition <= position_' /\ position_' <= MaxPosition
    /\ UNCHANGED <<target_position_, handle_, positive_direction_,
                   hal_is_enabled, hal_direction, has_endpoint, switch_low,
                   calibrating, ennable_state, calib_bursts>>

\* StepperMotor::stepMultiple
stepMultiple(steps) ==
    /\ axis_call' = Call("stepMultiple", steps)
    /\ ~calibrating
    /\ handle_
    /\ position_' = stepMultiple_position(position_, hal_direction, steps)
    /\ -MaxPosition <= position_' /\ position_' <= MaxPosition
    /\ UNCHANGED <<target_position_, handle_, positive_direction_,
                   hal_is_enabled, hal_direction, has_endpoint, switch_low,
                   calibrating, ennable_state, calib_bursts>>

\* Pulses stepper_motor_hal_step_multiple(handle, steps) emits: none when
\* the driver is not enabled, else one per step.
hal_step_multiple_pulses(enabled, steps) == IF enabled THEN steps ELSE 0

\* std::min(static_cast<uint32_t>(r), max_steps): a negative r becomes
\* 2^32 - |r|, which exceeds every max_steps explored.
min_as_uint32(r, max_steps) == IF r < 0 THEN max_steps ELSE Min(r, max_steps)

\* Direction chosen by stepMultipleToTarget for a non-zero remaining:
\* "remaining_steps > 0 == (positive_direction_ == STEPPER_DIR_CLOCKWISE)".
target_direction(remaining) ==
    IF (remaining > 0) = (positive_direction_ = STEPPER_DIR_CLOCKWISE)
    THEN STEPPER_DIR_CLOCKWISE
    ELSE STEPPER_DIR_COUNTERCLOCKWISE

\* steps_to_execute of stepMultipleToTarget: remaining is negated only on
\* the counter-clockwise branch, then cast to uint32_t.
steps_to_execute(remaining, max_steps) ==
    LET r == IF target_direction(remaining) = STEPPER_DIR_CLOCKWISE
             THEN remaining ELSE -remaining
    IN min_as_uint32(r, max_steps)

\* StepperMotor::stepMultipleToTarget: returns at once when already at the
\* target, else sets the direction and calls stepMultiple.
stepMultipleToTarget(max_steps) ==
    LET remaining == (target_position_ - position_) IN
    /\ axis_call' = Call("stepMultipleToTarget", max_steps)
    /\ ~calibrating
    /\ handle_
    /\ hal_direction' = IF remaining = 0 THEN hal_direction
                        ELSE target_direction(remaining)
    /\ position_' = IF remaining = 0 THEN position_
                    ELSE stepMultiple_position(position_, hal_direction',
                             steps_to_execute(remaining, max_steps))
    /\ -MaxPosition <= position_' /\ position_' <= MaxPosition
    /\ UNCHANGED <<target_position_, handle_, positive_direction_,
                   hal_is_enabled, has_endpoint, switch_low, calibrating,
                   ennable_state, calib_bursts>>

\* StepperMotor::resetPosition
resetPosition ==
    /\ axis_call' = Call("resetPosition", 0)
    /\ ~calibrating
    /\ handle_
    /\ position_' = 0
    /\ target_position_' = 0
    /\ UNCHANGED <<handle_, positive_direction_, hal_is_enabled, hal_direction,
                   has_endpoint, switch_low, calibrating, ennable_state,
                   calib_bursts>>

\* StepperMotor::calibrate up to its loop: the direction is set counter-
\* clockwise, ennable_state is read from stepper_motor_hal_get_direction,
\* the motor is enabled and pointed against its positive direction.  The
\* call is recorded with the enabled flag it found (1 enabled, 0 disabled).
calibrate_begin ==
    /\ axis_call' = Call("calibrate", IF hal_is_enabled THEN 1 ELSE 0)
    /\ ~calibrating
    /\ handle_
    /\ ennable_state' = (STEPPER_DIR_COUNTERCLOCKWISE # 0)
    /\ hal_is_enabled' = TRUE
    /\ hal_direction' = IF positive_direction_ = STEPPER_DIR_CLOCKWISE
                        THEN STEPPER_DIR_COUNTERCLOCKWISE
                        ELSE STEPPER_DIR_CLOCKWISE
    /\ calibrating' = TRUE
    /\ calib_bursts' = 0
    /\ UNCHANGED <<position_, target_position_, handle_, positive_direction_,
                   has_endpoint, switch_low>>

\* One pass of the loop body: a burst of CALIBRATE_BURST HAL steps, which
\* the position counter does not follow.
calibrate_burst ==
    /\ axis_call' = axis_call
    /\ calibrating
    /\ ~isEndpointReached
    /\ calib_bursts < MaxBursts
    /\ calib_bursts' = calib_bursts + 1
    /\ UNCHANGED <<position_, target_position_, handle_, positive_direction_,
                   hal_is_enabled, hal_direction, has_endpoint, switch_low,
                   calibrating, ennable_state>>

\* Loop exit: resetPosition(), then setEnable(ennable_state).
calibrate_end ==
    /\ axis_call' = axis_call
    /\ calibrating
    /\ isEndpointReached
    /\ position_' = 0
    /\ target_position_' = 0
    /\ hal_is_enabled' = ennable_state
    /\ calibrating' = FALSE
    /\ UNCHANGED <<handle_, positive_direction_, hal_direction, has_endpoint,
                   switch_low, ennable_state, calib_bursts>>

\* The carriage reaches or leaves the limit switch.
SwitchChange ==
    /\ axis_call' = axis_call
    /\ has_endpoint
    /\ switch_low' = ~switch_low
    /\ UNCHANGED <<position_, target_position_, handle_, positive_direction_,
                   hal_is_enabled, hal_direction, has_endpoint, calibrating,
                   ennable_state, calib_bursts>>

TargetInputs == (-MaxCoord) .. MaxCoord
StepInputs == 0 .. MaxSteps


\* ========================================================================
\* Soldering iron: PWM heater with PID regulator (soldering_iron_hal.c)
\* ========================================================================
\* The doubles of the HAL are kept as integers: temperatures in whole
\* degrees, time steps in whole seconds, gains and power in tenths (one
\* decimal digit, GAIN_SCALE).  NaN stands for the IEEE not-a-number, which
\* a failed conversion of a sensor reading can deliver.
GAIN_SCALE == 10
NaN == -1000000

PID_INTEGRAL_MIN == -50
PID_INTEGRAL_MAX == 50
DEFAULT_PID_KP == 150
DEFAULT_PID_KI == 1
DEFAULT_PID_KD == 0
POWER_MIN == 0
POWER_MAX == 100 * GAIN_SCALE
MAX_DUTY_VALUE == 1023
MIN_TEMPERATURE == 20
MAX_TEMPERATURE == 450

\* Longest time step between two updates, in seconds.
MaxDt == 1

VARIABLES
    iron_handle,          \* soldering_iron_hal_init returned a handle
    iron_is_enabled,      \* handle->is_enabled
    current_power_pct,    \* handle->current_power_pct, in tenths of a percent
    pwm_duty,             \* raw duty last given to ledc_set_duty
    target_temperature,   \* handle->target_temperature
    pid_kp, pid_ki, pid_kd,   \* gains, in tenths
    pid_integral,         \* handle->pid_integral
    pid_last_error,       \* handle->pid_last_error
    iron_call             \* the last heater operation called and its argument

iron_vars == <<iron_handle, iron_is_enabled, current_power_pct, pwm_duty,
               target_temperature, pid_kp, pid_ki, pid_kd, pid_integral,
               pid_last_error, iron_call>>

\* Arithmetic of doubles: any operation on a NaN gives NaN.
fadd(a, b) == IF a = NaN \/ b = NaN THEN NaN ELSE a + b
fsub(a, b) == IF a = NaN \/ b = NaN THEN NaN ELSE a - b
fmul(a, b) == IF a = NaN \/ b = NaN THEN NaN ELSE a * b
fdiv(a, b) == IF a = NaN \/ b = NaN THEN NaN ELSE a \div b

\* fmin and fmax of math.h: when one argument is NaN the other is returned.
fmin(a, b) == IF a = NaN THEN b ELSE IF b = NaN THEN a ELSE Min(a, b)
fmax(a, b) == IF a = NaN THEN b ELSE IF b = NaN THEN a ELSE Max(a, b)

\* Variant: the power is limited from below only.
clamp_power_open(duty_cycle) == fmax(POWER_MIN, duty_cycle)

\* clamped_power of soldering_iron_hal_set_power.
clamp_power(duty_cycle) == fmax(POWER_MIN, fmin(POWER_MAX, duty_cycle))

\* raw_duty of soldering_iron_hal_set_power, truncated as the cast does.
raw_duty(power) == (power * MAX_DUTY_VALUE) \div POWER_MAX

\* Variant: the raw duty is written whatever the enabled flag.
applied_duty_always(enabled, power) == raw_duty(power)

\* Duty handed to _set_pwm_duty_raw by soldering_iron_hal_set_power.
applied_duty(enabled, power) == IF enabled THEN raw_duty(power) ELSE 0

\* clamped_temp of soldering_iron_hal_set_target_temperature.
clamp_temperature(temperature) ==
    fmax(MIN_TEMPERATURE, fmin(MAX_TEMPERATURE, temperature))

\* Variant: the regulator is reset on every call.
target_changed_always(clamped_temp, target) == TRUE

\* "if (clamped_temp != handle->target_temperature)".
target_changed(clamped_temp, target) == clamped_temp # target

\* The anti-windup limit of soldering_iron_hal_update_control.
clamp_integral(integral) ==
    fmax(PID_INTEGRAL_MIN, fmin(PID_INTEGRAL_MAX, integral))

\* output_power of soldering_iron_hal_update_control before its limit,
\* from the error, the new integral, the last error and the time step.
pid_output(error, integral, last_error, dt) ==
    LET p_out == fmul(pid_kp, error)
        i_out == fmul(pid_ki, integral)
        derivative == fdiv(fsub(error, last_error), dt)
        d_out == fmul(pid_kd, derivative)
    IN fadd(fadd(p_out, i_out), d_out)

IronCall(op, arg) == [op |-> op, arg |-> arg]

\* soldering_iron_hal_init: disabled, target 0, power 0, default gains; a
\* failed initialisation leaves a null handle.
InitIron ==
    /\ iron_handle \in BOOLEAN
    /\ iron_is_enabled = FALSE
    /\ current_power_pct = 0
    /\ pwm_duty = 0
    /\ target_temperature = 0
    /\ pid_kp = DEFAULT_PID_KP
    /\ pid_ki = DEFAULT_PID_KI
    /\ pid_kd = DEFAULT_PID_KD
    /\ pid_integral = 0
    /\ pid_last_error = 0
    /\ iron_call = IronCall("init", 0)

\* The state writes of soldering_iron_hal_set_power with the enabled flag
\* as given.
set_power_writes(enabled, duty_cycle) ==
    /\ current_power_pct' = clamp_power(duty_cycle)
    /\ pwm_duty' = applied_duty(enabled, current_power_pct')

\* soldering_iron_hal_set_power
soldering_iron_hal_set_power(duty_cycle) ==
    /\ iron_call' = IronCall("set_power", duty_cycle)
    /\ IF iron_handle
       THEN set_power_writes(iron_is_enabled, duty_cycle)
       ELSE UNCHANGED <<current_power_pct, pwm_duty>>
    /\ UNCHANGED <<iron_handle, iron_is_enabled, target_temperature, pid_kp,
                   pid_ki, pid_kd, pid_integral, pid_last_error>>

\* soldering_iron_hal_set_target_temperature
soldering_iron_hal_set_target_temperature(temperature) ==
    LET clamped_temp == clamp_temperature(temperature) IN
    /\ iron_call' = IronCall("set_target_temperature", temperature)
    /\ IF iron_handle /\ target_changed(clamped_temp, target_temperature)
       THEN /\ target_temperature' = clamped_temp
            /\ pid_integral' = 0
            /\ pid_last_error' = 0
       ELSE UNCHANGED <<target_temperature, pid_integral, pid_last_error>>
    /\ UNCHANGED <<iron_handle, iron_is_enabled, current_power_pct, pwm_duty,
                   pid_kp, pid_ki, pid_kd>>

\* soldering_iron_hal_set_enable
soldering_iron_hal_set_enable(enable) ==
    /\ iron_call' = IronCall("set_enable", IF enable THEN 1 ELSE 0)
    /\ IF ~iron_handle
       THEN UNCHANGED <<iron_is_enabled, current_power_pct, pwm_duty,
                        pid_integral, pid_last_error>>
       ELSE /\ iron_is_enabled' = enable
            /\ IF ~enable
               THEN /\ set_power_writes(FALSE, 0)
                    /\ UNCHANGED <<pid_integral, pid_last_error>>
               ELSE /\ pid_integral' = 0
                    /\ pid_last_error' = 0
                    /\ UNCHANGED <<current_power_pct, pwm_duty>>
    /\ UNCHANGED <<iron_handle, target_temperature, pid_kp, pid_ki, pid_kd>>

\* soldering_iron_hal_set_pid_constants
soldering_iron_hal_set_pid_constants(kp, ki, kd) ==
    /\ iron_call' = IronCall("set_pid_constants", kp)
    /\ IF iron_handle
       THEN /\ pid_kp' = kp
            /\ pid_ki' = ki
            /\ pid_kd' = kd
            /\ pid_integral' = 0
            /\ pid_last_error' = 0
       ELSE UNCHANGED <<pid_kp, pid_ki, pid_kd, pid_integral, pid_last_error>>
    /\ UNCHANGED <<iron_handle, iron_is_enabled, current_power_pct, pwm_duty,
                   target_temperature>>

\* soldering_iron_hal_update_control, dt seconds after the regulator's last
\* time stamp; dt = 0 stands for a step shorter than a millisecond.
soldering_iron_hal_update_control(current_temperature, dt) ==
    /\ iron_call' = IronCall("update_control", current_temperature)
    /\ IF ~iron_handle
       THEN UNCHANGED <<current_power_pct, pwm_duty, pid_integral, pid_last_error>>
       ELSE IF ~iron_is_enabled \/ target_temperature <= 0
       THEN /\ IF current_power_pct > 0
               THEN set_power_writes(iron_is_enabled, 0)
               ELSE UNCHANGED <<current_power_pct, pwm_duty>>
            /\ UNCHANGED <<pid_integral, pid_last_error>>
       ELSE IF dt = 0
       THEN UNCHANGED <<current_power_pct, pwm_duty, pid_integral, pid_last_error>>
       ELSE LET error == fsub(target_temperature, current_temperature)
                integral == clamp_integral(fadd(pid_integral, fmul(error, dt)))
                output_power == fmax(POWER_MIN, fmin(POWER_MAX,
                                    pid_output(error, integral, pid_last_error, dt)))
            IN /\ pid_integral' = integral
               /\ pid_last_error' = error
               /\ set_power_writes(iron_is_enabled, output_power)
    /\ UNCHANGED <<iron_handle, iron_is_enabled, target_temperature, pid_kp,
                   pid_ki, pid_kd>>

\* Inputs of the heater operations.
PowerInputs == {NaN, -5 * GAIN_SCALE, 50 * GAIN_SCALE, 150 * GAIN_SCALE}
TargetTemperatureInputs == {0, 300, 310, 500}
ReadingInputs == {NaN, 0, 290, 600}
GainInputs == {<<20, 5, 10>>, <<-10, 0, 0>>}
DtInputs == 0 .. MaxDt


\* ========================================================================
\* G-code parser (gcode_parser.c)
\* ========================================================================
\* Text is a sequence of one-character strings; the end of a C string (the
\* terminating NUL) is the end of the sequence.  Parameter values, doubles
\* in the code, are kept in tenths (VALUE_SCALE): the literals explored
\* carry at most one fractional digit.
GCODE_CMD_NONE == 0
GCODE_CMD_MOVE == 1
GCODE_CMD_FEED_SOLDER == 2
GCODE_CMD_SET_TEMPERATURE == 3
GCODE_CMD_HOME == 4
GCODE_CMD_DWELL == 5
GCODE_CMD_UNKNOWN == 6

VALUE_SCALE == 10
LINE_BUFFER_SIZE == 256
DEFAULT_SOLDER_AMOUNT == 100

\* Most lines in a program explored.
MaxLines == 2

VARIABLES
    program_buffer,       \* handle->program_buffer (buffer_size is its length)
    current_position,     \* handle->current_position
    current_line,         \* handle->current_line
    is_loaded,            \* handle->is_loaded
    gcode_call            \* the last parser operation: its argument and result

gcode_vars == <<program_buffer, current_position, current_line, is_loaded,
                gcode_call>>

NUL == ""
LF == "\n"
CR == "\r"
TAB == "\t"

DigitChars == <<"0", "1", "2", "3", "4", "5", "6", "7", "8", "9">>
LowerChars == <<"a", "b", "c", "d", "e", "f", "g", "h", "i", "j", "k", "l", "m",
                "n", "o", "p", "q", "r", "s", "t", "u", "v", "w", "x", "y", "z">>
UpperChars == <<"A", "B", "C", "D", "E", "F", "G", "H", "I", "J", "K", "L", "M",
                "N", "O", "P", "Q", "R", "S", "T", "U", "V", "W", "X", "Y", "Z">>

IndexIn(seq, c) == CHOOSE i \in 1 .. Len(seq) : seq[i] = c
Occurs(seq, c) == \E i \in 1 .. Len(seq) : seq[i] = c

\* *str of a C string.
At(str) == IF str = <<>> THEN NUL ELSE Head(str)

\* ctype.h
isspace(c) == c \in {" ", TAB, LF, CR}
isdigit(c) == Occurs(DigitChars, c)
isalpha(c) == Occurs(LowerChars, c) \/ Occurs(UpperChars, c)
toupper(c) == IF Occurs(LowerChars, c) THEN UpperChars[IndexIn(LowerChars, c)] ELSE c
digit_value(c) == IndexIn(DigitChars, c) - 1

\* skip_whitespace
RECURSIVE skip_whitespace(_)
skip_whitespace(str) ==
    IF isspace(At(str)) THEN skip_whitespace(Tail(str)) ELSE str

\* "while (isdigit(*line)) line++"
RECURSIVE skip_digits(_)
skip_digits(str) ==
    IF isdigit(At(str)) THEN skip_digits(Tail(str)) ELSE str

\* The decimal digits at the start of str, read on top of acc.
RECURSIVE read_digits(_, _)
read_digits(str, acc) ==
    IF isdigit(At(str))
    THEN read_digits(Tail(str), acc * 10 + digit_value(At(str)))
    ELSE acc

\* atoi: leading white space, an optional sign, then digits; 0 without
\* digits.
atoi(str) ==
    LET signed(s) ==
            IF At(s) = "-" THEN -read_digits(Tail(s), 0)
            ELSE IF At(s) = "+" THEN read_digits(Tail(s), 0)
            ELSE read_digits(s, 0)
    IN signed(skip_whitespace(str))

\* strtod(ptr, &end) for decimal literals: leading white space, an optional
\* sign, digits, an optional point and digits.  found is "end != ptr".
strtod(ptr) ==
    LET result(s, body, after_int, frac, after_frac) ==
            IF after_int # body \/ after_frac # frac
            THEN [found |-> TRUE,
                  value |-> (IF At(s) = "-" THEN -1 ELSE 1)
                              * (read_digits(body, 0) * VALUE_SCALE
                                 + (IF after_frac # frac THEN digit_value(At(frac))
                                    ELSE 0)),
                  end |-> after_frac]
            ELSE [found |-> FALSE, value |-> 0, end |-> ptr]
        fraction(s, body, after_int, frac) ==
            result(s, body, after_int, frac, skip_digits(frac))
        point(s, body, after_int) ==
            fraction(s, body, after_int,
                     IF At(after_int) = "." THEN Tail(after_int) ELSE after_int)
        integer(s, body) == point(s, body, skip_digits(body))
        sign(s) == integer(s, IF At(s) \in {"-", "+"} THEN Tail(s) ELSE s)
    IN sign(skip_whitespace(ptr))

\* parse_parameter: a letter followed by a number.
parse_parameter(line) ==
    LET number(r) ==
            IF ~r.found
            THEN [ok |-> FALSE, param_char |-> toupper(At(line)), value |-> 0,
                  line |-> line]
            ELSE [ok |-> TRUE, param_char |-> toupper(At(line)), value |-> r.value,
                  line |-> r.end]
    IN IF ~isalpha(At(line))
       THEN [ok |-> FALSE, param_char |-> NUL, value |-> 0, line |-> line]
       ELSE number(strtod(Tail(line)))

\* memset(cmd, 0, sizeof(gcode_command_t)); cmd->type = GCODE_CMD_NONE
EmptyCommand ==
    [type |-> GCODE_CMD_NONE,
     has_x |-> FALSE, has_y |-> FALSE, has_z |-> FALSE,
     has_f |-> FALSE, has_s |-> FALSE, has_t |-> FALSE,
     x |-> 0, y |-> 0, z |-> 0, f |-> 0, s |-> 0, t |-> 0]

\* (uint32_t)value of a parameter value that is not negative.
as_uint32(value) == value \div VALUE_SCALE

\* The switch (param_char) of gcode_parser_parse_line.
set_parameter(cmd, param_char, value) ==
    CASE param_char = "X" -> [cmd EXCEPT !.has_x = TRUE, !.x = value]
      [] param_char = "Y" -> [cmd EXCEPT !.has_y = TRUE, !.y = value]
      [] param_char = "Z" -> [cmd EXCEPT !.has_z = TRUE, !.z = value]
      [] param_char = "F" -> [cmd EXCEPT !.has_f = TRUE, !.f = value]
      [] param_char = "S" -> [cmd EXCEPT !.has_s = TRUE, !.s = as_uint32(value)]
      [] param_char = "T" -> [cmd EXCEPT !.has_t = TRUE, !.t = value]
      [] param_char = "P" -> [cmd EXCEPT !.has_t = TRUE, !.t = value]
      [] OTHER -> cmd

\* The "Parse parameters" loop of gcode_parser_parse_line.
RECURSIVE parse_parameters(_, _)
parse_parameters(line, cmd) ==
    LET parameter(p) ==
            IF p.ok
            THEN parse_parameters(p.line, set_parameter(cmd, p.param_char, p.value))
            ELSE cmd
        from(l) ==
            IF At(l) \in {";", NUL, LF, CR} THEN cmd
            ELSE parameter(parse_parameter(l))
    IN IF At(line) = NUL THEN cmd ELSE from(skip_whitespace(line))

\* Variant: G1 is taken as a move too.
g_code_is_move_g1(g_code) == g_code = 0 \/ g_code = 1

\* The switch (g_code): only case 0 goes on, as a move.
g_code_is_move(g_code) == g_code = 0

\* gcode_parser_parse_line: the result and the command written.
gcode_parser_parse_line(line) ==
    LET move == [EmptyCommand EXCEPT !.type = GCODE_CMD_MOVE]
        feed(l) ==
            [EmptyCommand EXCEPT
                !.type = GCODE_CMD_FEED_SOLDER,
                !.has_s = TRUE,
                !.s = IF isdigit(At(Tail(l))) THEN atoi(Tail(l))
                      ELSE DEFAULT_SOLDER_AMOUNT]
        parameters(l, c) ==
            IF c = "G" /\ ~g_code_is_move(atoi(Tail(l)))
            THEN [ok |-> FALSE, cmd |-> EmptyCommand]
            ELSE IF c = "G" \/ c = "S"
            THEN [ok |-> TRUE,
                  cmd |-> parse_parameters(skip_digits(Tail(l)),
                                           IF c = "G" THEN move ELSE feed(l))]
            ELSE [ok |-> FALSE, cmd |-> EmptyCommand]
        command(l) ==
            IF At(l) \in {NUL, ";", LF, CR}
            THEN [ok |-> FALSE, cmd |-> EmptyCommand]
            ELSE parameters(l, toupper(At(l)))
    IN command(skip_whitespace(line))

\* gcode_parser_validate_command
gcode_parser_validate_command(cmd) ==
    CASE cmd.type = GCODE_CMD_MOVE -> cmd.has_x \/ cmd.has_y \/ cmd.has_z
      [] cmd.type = GCODE_CMD_FEED_SOLDER -> cmd.has_s /\ cmd.s # 0
      [] OTHER -> FALSE

\* Least element of a non-empty set of numbers.
MinOf(S) == CHOOSE x \in S : \A y \in S : x <= y

\* Variant: the character after a "\r" is skipped without looking at it
\* or at the end of the buffer.
extract_line_skipping(buf, pos) ==
    LET limit == Min(Len(buf), pos + (LINE_BUFFER_SIZE - 1))
        ends == {i \in (pos + 1) .. limit : buf[i] = LF \/ buf[i] = CR}
    IN IF ends = {}
       THEN [line |-> SubSeq(buf, pos + 1, limit), pos |-> limit]
       ELSE LET e == MinOf(ends) IN
            [line |-> SubSeq(buf, pos + 1, e - 1),
             pos |-> IF buf[e] = CR THEN e + 1 ELSE e]

\* The line extraction loop of gcode_parser_get_next_command from position
\* pos: it reads up to the first "\n" or "\r" (taking a "\n" that follows
\* a "\r" with it), and stops before it after LINE_BUFFER_SIZE - 1
\* characters or at the end of the buffer.
extract_line(buf, pos) ==
    LET limit == Min(Len(buf), pos + (LINE_BUFFER_SIZE - 1))
        ends == {i \in (pos + 1) .. limit : buf[i] = LF \/ buf[i] = CR}
    IN IF ends = {}
       THEN [line |-> SubSeq(buf, pos + 1, limit), pos |-> limit]
       ELSE LET e == MinOf(ends) IN
            [line |-> SubSeq(buf, pos + 1, e - 1),
             pos |-> IF buf[e] = CR /\ e < Len(buf) /\ buf[e + 1] = LF
                     THEN e + 1 ELSE e]

\* gcode_parser_get_next_command on a loaded program, with cmd what the
\* caller's command holds: the result, the command and the position and
\* line number it leaves; calls lists current_position as each call found
\* it, the call itself first and then its recursive retries.
RECURSIVE get_next_command(_, _, _, _)
get_next_command(buf, pos, line_no, cmd) ==
    LET parsed(e, p) ==
            IF p.ok /\ gcode_parser_validate_command(p.cmd)
            THEN [ok |-> TRUE, cmd |-> p.cmd, pos |-> e.pos, line_no |-> line_no + 1,
                  calls |-> <<pos>>]
            ELSE IF p.ok \/ e.pos < Len(buf)
            THEN [get_next_command(buf, e.pos, line_no + 1, p.cmd)
                     EXCEPT !.calls = <<pos>> \o @]
            ELSE [ok |-> FALSE, cmd |-> p.cmd, pos |-> e.pos,
                  line_no |-> line_no + 1, calls |-> <<pos>>]
        extracted(e) == parsed(e, gcode_parser_parse_line(e.line))
    IN IF pos >= Len(buf)
       THEN [ok |-> FALSE, cmd |-> cmd, pos |-> pos, line_no |-> line_no,
             calls |-> <<pos>>]
       ELSE extracted(extract_line(buf, pos))

\* Variant: the line counter is left as it is.
reset_line_kept(line_no) == line_no

\* current_line after gcode_parser_reset.
reset_line(line_no) == 0

GcodeCall(op, arg, ok, cmd) == [op |-> op, arg |-> arg, ok |-> ok, cmd |-> cmd]

\* gcode_parser_init: memset(handle, 0, ...)
InitParser ==
    /\ program_buffer = <<>>
    /\ current_position = 0
    /\ current_line = 0
    /\ is_loaded = FALSE
    /\ gcode_call = GcodeCall("init", <<>>, FALSE, EmptyCommand)

\* gcode_parser_load_program
gcode_parser_load_program(program) ==
    /\ gcode_call' = GcodeCall("load_program", <<>>, Len(program) # 0, gcode_call.cmd)
    /\ IF Len(program) = 0
       THEN UNCHANGED <<program_buffer, current_position, current_line, is_loaded>>
       ELSE /\ program_buffer' = program
            /\ current_position' = 0
            /\ current_line' = 0
            /\ is_loaded' = TRUE

\* gcode_parser_get_next_command
gcode_parser_get_next_command ==
    LET returned(r) ==
            /\ gcode_call' = GcodeCall("get_next_command", <<>>, r.ok, r.cmd)
            /\ current_position' = r.pos
            /\ current_line' = r.line_no
            /\ UNCHANGED <<program_buffer, is_loaded>>
    IN IF ~is_loaded
       THEN /\ gcode_call' = GcodeCall("get_next_command", <<>>, FALSE, gcode_call.cmd)
            /\ UNCHANGED <<program_buffer, current_position, current_line, is_loaded>>
       ELSE returned(get_next_command(program_buffer, current_position, current_line,
                                      gcode_call.cmd))

\* gcode_parser_reset; the call is recorded with the position it found.
gcode_parser_reset ==
    /\ gcode_call' = GcodeCall("reset", <<current_position>>, TRUE, gcode_call.cmd)
    /\ current_position' = 0
    /\ current_line' = reset_line(current_line)
    /\ UNCHANGED <<program_buffer, is_loaded>>

\* A call of gcode_parser_parse_line on the line the caller holds.
parse_line_call ==
    LET returned(p) ==
            gcode_call' = GcodeCall("parse_line", gcode_call.arg, p.ok, p.cmd)
    IN /\ gcode_call.op = "line"
       /\ returned(gcode_parser_parse_line(gcode_call.arg))
       /\ UNCHANGED <<program_buffer, current_position, current_line, is_loaded>>

\* --- Inputs: lines written out as a sender would.
\* The decimal digits of n >= 0, as printf("%d") gives them.
RECURSIVE format_digits(_)
format_digits(n) ==
    IF n < 10 THEN <<DigitChars[n + 1]>>
    ELSE Append(format_digits(n \div 10), DigitChars[(n % 10) + 1])

format_int(n) == IF n < 0 THEN <<"-">> \o format_digits(-n) ELSE format_digits(n)

MoveLine(a, b) == <<"G", "0", " ", "X">> \o format_int(a) \o <<" ", "Y">> \o format_int(b)
FeedLine(n) == <<"S">> \o format_digits(n)

CoordInputs == {-3, 0, 7, 10, 25, 100}
AmountInputs == {1, 5, 75, 120}

MoveLines == {MoveLine(a, b) : a, b \in CoordInputs}
FeedLines == {FeedLine(n) : n \in AmountInputs}
IgnoredLines ==
    { <<"G", "1", " ", "X", "5">>, <<"G", "4", " ", "P", "2">>, <<"G", "2", "8">>,
      <<"M", "1", "0", "4", " ", "S", "3", "5", "0">>, <<"m", "1", "0", "9">> }
SkippedLines ==
    { <<>>, <<" ", " ">>, <<";", " ", "S", "5">>, <<"G", "0">>, <<"S", "0">>,
      <<"G", "9", "2">>, <<"X", "1", "0">>, <<"G", "0", " ", "X">> }
OtherLines ==
    { <<"g", "0", " ", "x", "1", ".", "5", " ", "z", "2">>, <<"S">>,
      <<"G", "0", "0", " ", "Y", "7", " ", ";", "c">>, <<"S", "5", CR>> }

\* Lines a program is made of.
ProgramLines ==
    { MoveLine(10, 25), <<"S", "5", CR>>, <<"G", "2", "8">>, <<>>,
      <<";", " ", "S", "5">>, <<"S", "0">>, <<"X", "1", "0">> }

\* A comment line longer than the line buffer, ending in the text "S5".
LongComment ==
    <<";">> \o [i \in 1 .. (LINE_BUFFER_SIZE - 2) |-> "x"] \o <<"S", "5">>

RECURSIVE join_lines(_)
join_lines(ls) ==
    IF Len(ls) = 0 THEN <<>>
    ELSE IF Len(ls) = 1 THEN ls[1]
    ELSE ls[1] \o <<LF>> \o join_lines(Tail(ls))

ProgramInputs ==
    { join_lines(ls) : ls \in UNION { [1 .. n -> ProgramLines] : n \in 1 .. MaxLines } }
      \cup { LongComment, LongComment \o <<LF>> \o FeedLine(75) }

ParseInputs == MoveLines \cup FeedLines \cup IgnoredLines \cup SkippedLines \cup OtherLines


\* ========================================================================
\* The machine: four motors (main.cpp) and the ExecutionSequencer
\* (execution_fsm.cpp)
\* ========================================================================
\* The motors of init_motors, all initialised.  Each has the counters of
\* StepperMotor and the state of its HAL handle; carriage is the distance,
\* in steps, of the mechanics from the limit switch, which reads triggered
\* exactly when the carriage rests on it.  The HAL moves the mechanics only
\* while the motor is enabled; the counters follow every call.
EXEC_STATE_IDLE == 0
EXEC_STATE_MOVE_TO_POINT == 1
EXEC_STATE_MOVE_DOWN == 2
EXEC_STATE_SOLDERING == 3
EXEC_STATE_MOVE_UP == 4
EXEC_STATE_RETURN_HOME == 5
EXEC_STATE_COMPLETE == 6

\* Steps of the feed axis made by every tick of MOVE_TO_POINT.
TEST_FEED_STEPS == 300
\* feed_amount of a FEED_SOLDER command without an amount.
DEFAULT_FEED_AMOUNT == 300
\* Divisor of "feed_amount = solder_duration / 10".
FEED_DIVISOR == 10
\* Heights handed to mm_to_microsteps by on_enter_executing, in mm.
SAFE_Z_MM == 160
SOLDERING_Z_MM == 180
\* CONFIG_MOTOR_*_MICROSTEPS_IN_MM, one value for the four motors.
MICROSTEPS_IN_MM == 2

\* Most points in a list.
MaxPoints == 2
\* Farthest a position counter is followed.
MaxTravel == 20000
\* Most runs of the sequencer on one machine.
MaxRuns == 2

VARIABLES
    motors,         \* motor_x, motor_y, motor_z, motor_s
    exec_sub_fsm,   \* the execution_sub_fsm_t the caller holds
    points,         \* the point list handed to exec_sub_fsm_process
    machine_call    \* the last sequencer call: its name, the steps it
                    \* issued with the Z position at each, whether it pulled
                    \* a command, the command, the result of a load, the
                    \* size given to the last load, and the number of the
                    \* run

machine_vars == <<motors, exec_sub_fsm, points, machine_call>>

MotorNames == {"x", "y", "z", "s"}

\* positive_direction_ given to each constructor by init_motors.
positive_direction_of(n) ==
    IF n = "x" THEN STEPPER_DIR_COUNTERCLOCKWISE ELSE STEPPER_DIR_CLOCKWISE

\* endpoint_pin of each motor: the feed axis has none.
has_endpoint_of(n) == n # "s"

\* A motor as constructed.
NewMotor ==
    [position |-> 0, target |-> 0, is_enabled |-> FALSE,
     direction |-> STEPPER_DIR_CLOCKWISE, carriage |-> 0]

\* The sequencer's view of the machine while a call runs: the sequencer
\* record e, the motors m and the steps issued so far.
Rig(e, m, trace) == [e |-> e, m |-> m, trace |-> trace]

\* StepperMotor::setTargetPosition on motor n.
motor_setTargetPosition(m, n, position) ==
    [m EXCEPT ![n].target = clamp_target(position)]

\* StepperMotor::setEnable on motor n.
motor_setEnable(m, n, enable) == [m EXCEPT ![n].is_enabled = enable]

\* Direction chosen by stepMultipleToTarget for a motor whose positive
\* direction is pd.
direction_to_target(pd, remaining) ==
    IF (remaining > 0) = (pd = STEPPER_DIR_CLOCKWISE)
    THEN STEPPER_DIR_CLOCKWISE
    ELSE STEPPER_DIR_COUNTERCLOCKWISE

\* steps_to_execute of stepMultipleToTarget for such a motor.
steps_toward_target(pd, remaining, max_steps) ==
    min_as_uint32(IF direction_to_target(pd, remaining) = STEPPER_DIR_CLOCKWISE
                  THEN remaining ELSE -remaining, max_steps)

\* The mechanics after a burst of the HAL: away from the switch when the
\* burst runs in the positive direction, towards it and onto it otherwise.
carriage_after(n, mot, steps) ==
    IF ~mot.is_enabled \/ ~has_endpoint_of(n) THEN mot.carriage
    ELSE IF mot.direction = positive_direction_of(n)
    THEN mot.carriage + steps
    ELSE Max(0, mot.carriage - steps)

\* StepperMotor::stepMultiple on motor n: the counter follows the HAL
\* direction, the HAL steps, and the counter is zeroed when the switch
\* reads triggered afterwards.
motor_stepMultiple(n, mot, steps) ==
    LET c == carriage_after(n, mot, steps) IN
    [mot EXCEPT !.carriage = c,
                !.position = IF has_endpoint_of(n) /\ c = 0 THEN 0
                             ELSE moved_position(mot.position, mot.direction, steps)]

\* StepperMotor::stepMultipleToTarget on motor n.
motor_stepMultipleToTarget(n, mot, max_steps) ==
    LET remaining == mot.target - mot.position
        pd == positive_direction_of(n)
    IN IF remaining = 0 THEN mot
       ELSE motor_stepMultiple(n,
                [mot EXCEPT !.direction = direction_to_target(pd, remaining)],
                steps_toward_target(pd, remaining, max_steps))

\* F applied to the value of v: a call whose result the caller uses more
\* than once is evaluated once.
Only(S) == CHOOSE x \in S : TRUE
Then(v, F(_)) == Only({F(x) : x \in {v}})

\* A stepMultipleToTarget call made by the sequencer, with its record in
\* the trace when it runs the motor.
advance(R, n, max_steps) ==
    Then(R, LAMBDA r :
        IF r.m[n].target = r.m[n].position THEN r
        ELSE [r EXCEPT !.m[n] = motor_stepMultipleToTarget(n, r.m[n], max_steps),
                       !.trace = Append(@, [motor |-> n, max_steps |-> max_steps,
                                            z |-> r.m["z"].position])])

\* "stepMultipleToTarget(abs(getPosition() - getTargetPosition()))"
advance_to_target(R, n) ==
    Then(R, LAMBDA r : advance(r, n, Abs(r.m[n].position - r.m[n].target)))

\* StepperMotor::calibrate on motor n when its switch works: the carriage
\* is run onto the switch against the positive direction, the counters
\* are reset and the motor is left enabled (ennable_state holds the
\* direction just written, counter-clockwise, read as a flag).
motor_calibrate(n, mot) ==
    [position |-> 0, target |-> 0, is_enabled |-> TRUE, carriage |-> 0,
     direction |-> IF positive_direction_of(n) = STEPPER_DIR_CLOCKWISE
                   THEN STEPPER_DIR_COUNTERCLOCKWISE ELSE STEPPER_DIR_CLOCKWISE]

\* StepperMotor::mm_to_microsteps: the double is converted to int64_t
\* (truncation towards zero) and multiplied by steps_per_mm.
mm_to_microsteps(value) ==
    (IF value < 0 THEN -((-value) \div VALUE_SCALE) ELSE value \div VALUE_SCALE)
        * MICROSTEPS_IN_MM

\* exec_sub_fsm_get_default_config
exec_sub_fsm_get_default_config ==
    [safe_z_height |-> 16000, soldering_z_height |-> 18000,
     home_x |-> 0, home_y |-> 0, home_z |-> 0]

\* exec_config of on_enter_executing
exec_config ==
    [safe_z_height |-> mm_to_microsteps(SAFE_Z_MM * VALUE_SCALE),
     soldering_z_height |-> mm_to_microsteps(SOLDERING_Z_MM * VALUE_SCALE),
     home_x |-> 0, home_y |-> 0, home_z |-> 0]

\* exec_sub_fsm_init at time t: memset, then IDLE and the configuration.
exec_sub_fsm_init(cfg, t) ==
    [sub_state |-> EXEC_STATE_IDLE, current_point_index |-> 0,
     state_enter_time |-> t, solder_start_time |-> 0, solder_start_pos |-> 0,
     solder_points_completed |-> 0, operation_in_progress |-> FALSE,
     config |-> cfg, gcode_parser_handle |-> FALSE, use_gcode |-> FALSE]

\* transition_to_state of execution_fsm.cpp
exec_transition_to_state(e, new_state, t) ==
    IF e.sub_state # new_state
    THEN [e EXCEPT !.sub_state = new_state, !.state_enter_time = t,
                   !.operation_in_progress = FALSE]
    ELSE e

\* --- exec_sub_fsm_process, one case of its switch per operator.  R is
\* the machine at entry, pts the point list, t the clock.
process_idle(R, pts, t) ==
    [R EXCEPT !.e = exec_transition_to_state(@,
                        IF R.e.current_point_index < Len(pts)
                        THEN EXEC_STATE_MOVE_TO_POINT ELSE EXEC_STATE_RETURN_HOME, t)]

\* Variant: arrival is tested against the target the motor holds.
axis_reached_target(m, n, coordinate) == m[n].position = m[n].target

\* "bool x_reached = (motor_x->getPosition() == target->x);" and the same
\* for Y: arrival is tested against the coordinate of the point.
axis_reached(m, n, coordinate) == m[n].position = coordinate

process_move_to_point(R, pts, t) ==
    LET target == pts[R.e.current_point_index + 1]
        m1 == IF R.e.operation_in_progress THEN R.m
              ELSE motor_setTargetPosition(
                     motor_setTargetPosition(
                       motor_setTargetPosition(R.m, "x", target.x),
                       "y", target.y),
                     "z", R.e.config.safe_z_height)
        x_reached == axis_reached(m1, "x", target.x)
        y_reached == axis_reached(m1, "y", target.y)
        z_safe == m1["z"].position = R.e.config.safe_z_height
        R1 == [R EXCEPT !.m = motor_setTargetPosition(m1, "s",
                                  m1["s"].position + TEST_FEED_STEPS),
                        !.e.operation_in_progress = TRUE]
    IN Then(advance(R1, "s", TEST_FEED_STEPS), LAMBDA R2 :
         IF ~x_reached \/ ~y_reached \/ ~z_safe
         THEN Then(IF x_reached THEN R2 ELSE advance_to_target(R2, "x"), LAMBDA Rx :
              Then(IF y_reached THEN Rx ELSE advance_to_target(Rx, "y"), LAMBDA Ry :
                   IF z_safe THEN Ry ELSE advance_to_target(Ry, "z")))
         ELSE [R2 EXCEPT !.e = exec_transition_to_state(@, EXEC_STATE_MOVE_DOWN, t)])

\* MOVE_DOWN and MOVE_UP: Z to a height, then on.
process_move_z(R, height) ==
    IF R.e.operation_in_progress THEN R
    ELSE [R EXCEPT !.m = motor_setTargetPosition(@, "z", height),
                   !.e.operation_in_progress = TRUE]

process_move_down(R, pts, t) ==
    Then(process_move_z(R, R.e.config.soldering_z_height), LAMBDA R1 :
      IF R1.m["z"].position # R1.e.config.soldering_z_height
      THEN advance_to_target(R1, "z")
      ELSE [R1 EXCEPT !.e = exec_transition_to_state(@, EXEC_STATE_SOLDERING, t)])

process_soldering(R, pts, t) ==
    LET solder_duration == pts[R.e.current_point_index + 1].solder_time_ms
        begun == IF R.e.operation_in_progress THEN R
                 ELSE [R EXCEPT
                         !.m = motor_setTargetPosition(
                                   motor_setEnable(@, "s", TRUE), "s",
                                   R.m["s"].position + (solder_duration \div FEED_DIVISOR)),
                         !.e.solder_start_pos = R.m["s"].position,
                         !.e.solder_start_time = t,
                         !.e.operation_in_progress = TRUE]
    IN Then(begun, LAMBDA R1 :
         IF t - R1.e.solder_start_time < solder_duration
         THEN advance_to_target(R1, "s")
         ELSE [R1 EXCEPT !.m = motor_setEnable(@, "s", FALSE),
                         !.e = exec_transition_to_state(
                                   [@ EXCEPT !.solder_points_completed = @ + 1],
                                   EXEC_STATE_MOVE_UP, t)])

\* Variant: the index skips a point.
next_point_index_skip(index) == index + 2

\* "fsm->current_point_index++"
next_point_index(index) == index + 1

process_move_up(R, pts, t) ==
    LET index == next_point_index(R.e.current_point_index) IN
    Then(process_move_z(R, R.e.config.safe_z_height), LAMBDA R1 :
      IF R1.m["z"].position # R1.e.config.safe_z_height
      THEN advance_to_target(R1, "z")
      ELSE [R1 EXCEPT !.e = exec_transition_to_state(
                                [@ EXCEPT !.current_point_index = index],
                                IF index < Len(pts) THEN EXEC_STATE_MOVE_TO_POINT
                                ELSE EXEC_STATE_RETURN_HOME, t)])

process_return_home(R, pts, t) ==
    LET cfg == R.e.config
        m1 == IF R.e.operation_in_progress THEN R.m
              ELSE motor_setTargetPosition(
                     motor_setTargetPosition(
                       motor_setTargetPosition(R.m, "x", cfg.home_x),
                       "y", cfg.home_y),
                     "z", cfg.home_z)
        x_home == m1["x"].position = cfg.home_x
        y_home == m1["y"].position = cfg.home_y
        z_home == m1["z"].position = cfg.home_z
        home(Q, n) == Then(Q, LAMBDA r : advance(r, n, Abs(r.m[n].position)))
    IN Then([R EXCEPT !.m = m1, !.e.operation_in_progress = TRUE], LAMBDA R1 :
         IF ~x_home \/ ~y_home \/ ~z_home
         THEN Then(IF x_home THEN R1 ELSE home(R1, "x"), LAMBDA Rx :
              Then(IF y_home THEN Rx ELSE home(Rx, "y"), LAMBDA Ry :
                   IF z_home THEN Ry ELSE home(Ry, "z")))
         ELSE [R1 EXCEPT !.e = exec_transition_to_state(@, EXEC_STATE_COMPLETE, t)])

\* exec_sub_fsm_process
exec_sub_fsm_process(R, pts, t) ==
    Then(R, LAMBDA r :
      CASE r.e.sub_state = EXEC_STATE_IDLE          -> process_idle(r, pts, t)
        [] r.e.sub_state = EXEC_STATE_MOVE_TO_POINT -> process_move_to_point(r, pts, t)
        [] r.e.sub_state = EXEC_STATE_MOVE_DOWN     -> process_move_down(r, pts, t)
        [] r.e.sub_state = EXEC_STATE_SOLDERING     -> process_soldering(r, pts, t)
        [] r.e.sub_state = EXEC_STATE_MOVE_UP       -> process_move_up(r, pts, t)
        [] r.e.sub_state = EXEC_STATE_RETURN_HOME   -> process_return_home(r, pts, t)
        [] OTHER                                    -> r)

\* --- Program mode.  The parser instance the sequencer owns is the one
\* of the parser variables; P is its state while a call runs.
ParserState ==
    [program_buffer |-> program_buffer, current_position |-> current_position,
     current_line |-> current_line, is_loaded |-> is_loaded]

\* gcode_parser_init's instance, and what is left of one after deinit.
NewParser ==
    [program_buffer |-> <<>>, current_position |-> 0, current_line |-> 0,
     is_loaded |-> FALSE]

\* The machine as a call finds it.
Machine ==
    [e |-> exec_sub_fsm, m |-> motors, p |-> ParserState, trace |-> <<>>,
     pulled |-> FALSE, cmd |-> EmptyCommand, loaded |-> FALSE,
     size |-> machine_call.size, run |-> machine_call.run]

\* A pointer to text in memory, and the null pointer.
Buffer(bytes) == [null |-> FALSE, bytes |-> bytes]
NullBuffer == [null |-> TRUE, bytes |-> <<>>]

\* "if (!fsm || !gcode_buffer || buffer_size == 0) return false;"
load_refuses(gcode_buffer, buffer_size) == gcode_buffer.null \/ buffer_size = 0

\* "if (!handle || !program || length == 0) return false;" of
\* gcode_parser_load_program.
load_program_refuses(program, length) == program.null \/ length = 0

\* gcode_parser_load_program on a new instance with the first length
\* bytes of the program: the instance when it succeeds.
loaded_parser(program, length) ==
    [program_buffer |-> SubSeq(program.bytes, 1, length), current_position |-> 0,
     current_line |-> 0, is_loaded |-> TRUE]

\* exec_sub_fsm_load_gcode_from_ram.  acquired tells whether the mutex was
\* taken within its timeout and the parser allocated; the result is in
\* R.loaded.
exec_sub_fsm_load_gcode_from_ram(R, gcode_buffer, buffer_size, acquired) ==
    IF \/ load_refuses(gcode_buffer, buffer_size)
       \/ ~acquired
       \/ load_program_refuses(gcode_buffer, buffer_size)
    THEN [R EXCEPT !.loaded = FALSE, !.size = buffer_size]
    ELSE [R EXCEPT !.p = loaded_parser(gcode_buffer, buffer_size),
                   !.size = buffer_size,
                   !.e.gcode_parser_handle = TRUE,
                   !.e.use_gcode = TRUE,
                   !.loaded = TRUE]

\* Z to a height: setTargetPosition, then the steps when there are any.
move_z_to(R, height) ==
    advance_to_target([R EXCEPT !.m = motor_setTargetPosition(@, "z", height)], "z")

\* Z to the safe height of the configuration.
move_z_to_safe(R) == Then(R, LAMBDA r : move_z_to(r, r.e.config.safe_z_height))

\* Variant: the XY move does not wait for Z.
raise_z_first_skip(R) == R

\* Step 1 of a MOVE: Z to the safe height if it is not there.
raise_z_first(R) ==
    Then(R, LAMBDA r :
      IF r.m["z"].position # r.e.config.safe_z_height THEN move_z_to_safe(r) ELSE r)

\* Step 2 of a MOVE: the targets of X and Y, then their steps.
move_xy(R, cmd) ==
    LET targets(m) ==
          Then(IF cmd.has_x
               THEN motor_setTargetPosition(m, "x", mm_to_microsteps(cmd.x))
               ELSE m, LAMBDA mx :
                 IF cmd.has_y
                 THEN motor_setTargetPosition(mx, "y", mm_to_microsteps(cmd.y))
                 ELSE mx)
    IN Then([R EXCEPT !.m = targets(@)], LAMBDA R1 :
         Then(IF cmd.has_x THEN advance_to_target(R1, "x") ELSE R1, LAMBDA Rx :
              IF cmd.has_y THEN advance_to_target(Rx, "y") ELSE Rx))

\* Step 3 of a MOVE: Z to the soldering height when the command has a Z.
lower_z(R, cmd) ==
    Then(R, LAMBDA r :
      IF cmd.has_z THEN move_z_to(r, r.e.config.soldering_z_height) ELSE r)

\* The FEED_SOLDER case: the feed, then Z back to the safe height.
feed_solder(R, cmd) ==
    LET feed_amount == IF cmd.has_s THEN cmd.s ELSE DEFAULT_FEED_AMOUNT IN
    Then(R, LAMBDA r :
      move_z_to_safe(advance([r EXCEPT !.m = motor_setTargetPosition(@, "s",
                                             r.m["s"].position + feed_amount)],
                             "s", feed_amount)))

\* The HOME case.
home_axes(R) ==
    [R EXCEPT !.m = [n \in MotorNames |->
                        IF n = "s" THEN @[n] ELSE motor_calibrate(n, @[n])]]

\* execute_gcode_command
execute_gcode_command(R, cmd) ==
    CASE cmd.type = GCODE_CMD_MOVE        -> lower_z(move_xy(raise_z_first(R), cmd), cmd)
      [] cmd.type = GCODE_CMD_HOME        -> home_axes(R)
      [] cmd.type = GCODE_CMD_FEED_SOLDER -> feed_solder(R, cmd)
      [] OTHER                            -> R

\* gcode_parser_get_next_command on the sequencer's instance.
pull_command(P) ==
    IF ~P.is_loaded
    THEN [ok |-> FALSE, cmd |-> EmptyCommand, pos |-> P.current_position,
          line_no |-> P.current_line]
    ELSE get_next_command(P.program_buffer, P.current_position, P.current_line,
                          EmptyCommand)

\* Variant: the sequencer stays where it is when no command is left.
after_last_command_stay(e, t) == e

\* "transition_to_state(fsm, EXEC_STATE_COMPLETE)" of the else branch.
after_last_command(e, t) == exec_transition_to_state(e, EXEC_STATE_COMPLETE, t)

\* exec_sub_fsm_process_gcode at time t.
exec_sub_fsm_process_gcode(R, t) ==
    LET run(r) ==
          IF r.ok
          THEN execute_gcode_command(
                   [R EXCEPT !.p.current_position = r.pos,
                             !.p.current_line = r.line_no,
                             !.pulled = TRUE, !.cmd = r.cmd,
                             !.e.solder_points_completed = @ + 1], r.cmd)
          ELSE [R EXCEPT !.p.current_position = r.pos,
                         !.p.current_line = r.line_no,
                         !.e = after_last_command(@, t)]
    IN IF ~R.e.use_gcode \/ ~R.e.gcode_parser_handle THEN R
       ELSE Then(pull_command(R.p), LAMBDA r : run(r))

\* exec_sub_fsm_cleanup_gcode
exec_sub_fsm_cleanup_gcode(R) ==
    IF R.e.gcode_parser_handle
    THEN [R EXCEPT !.p = NewParser, !.e.gcode_parser_handle = FALSE,
                   !.e.use_gcode = FALSE]
    ELSE R

\* --- Actions of the sequencer
MachineCall(op, R) ==
    [op |-> op, trace |-> R.trace, pulled |-> R.pulled, cmd |-> R.cmd,
     loaded |-> R.loaded, size |-> R.size, run |-> R.run]

\* The machine after a call, while every counter is within MaxTravel.
SetMachine(op, R) ==
    /\ \A n \in MotorNames : Abs(R.m[n].position) <= MaxTravel
    /\ motors' = R.m
    /\ exec_sub_fsm' = R.e
    /\ program_buffer' = R.p.program_buffer
    /\ current_position' = R.p.current_position
    /\ current_line' = R.p.current_line
    /\ is_loaded' = R.p.is_loaded
    /\ machine_call' = MachineCall(op, R)
    /\ UNCHANGED <<points, gcode_call>>

\* Programs: moves with and without a Z marker, a feed, and comments.
MoveXYZ == <<"G", "0", " ", "X", "1", " ", "Y", "2", " ", "Z", "1">>
MoveY == <<"G", "0", " ", "Y", "3">>
MoveZ == <<"G", "0", " ", "Z", "5">>
Feed == <<"S", "5">>
Comment == <<";", " ", "c">>

MachinePrograms ==
    { join_lines(<<MoveXYZ, Feed, MoveY>>),
      join_lines(<<MoveY, Feed>>),
      join_lines(<<MoveZ, MoveXYZ>>),
      join_lines(<<Comment, Comment>>),
      join_lines(<<Comment>>) }

\* Lists of at most MaxPoints points with non-negative coordinates.
Point(x, y, solder_time_ms) ==
    [x |-> x, y |-> y, z |-> 0, solder |-> TRUE, solder_time_ms |-> solder_time_ms]

PointInputs == {Point(0, 0, 0), Point(0, 2, 100), Point(3, 1, 100)}

PointLists == UNION {[1 .. n -> PointInputs] : n \in 0 .. MaxPoints}

\* The motors after calibration and on_enter_executing's setEnable calls.
CalibratedMotors ==
    [n \in MotorNames |->
        [motor_calibrate(n, NewMotor) EXCEPT
            !.direction = IF n = "s" THEN STEPPER_DIR_CLOCKWISE ELSE @]]

\* A sequencer just initialised with either configuration, the motors
\* calibrated and enabled, and a point list in the caller's hands.
InitMachineOver(lists) ==
    /\ motors = CalibratedMotors
    /\ \E cfg \in {exec_sub_fsm_get_default_config, exec_config} :
          exec_sub_fsm = exec_sub_fsm_init(cfg, 0)
    /\ points \in lists
    /\ machine_call = [op |-> "init", trace |-> <<>>, pulled |-> FALSE,
                       cmd |-> EmptyCommand, loaded |-> FALSE, size |-> 0,
                       run |-> 1]

InitMachine == InitMachineOver(PointLists)

\* Point lists that may hold a point with a negative X or Y coordinate
\* (solder_point_t.x and .y are int32_t).
SignedPointInputs == {Point(0, 2, 100), Point(-1, 0, 100), Point(0, -2, 100)}

SignedPointLists == UNION {[1 .. n -> SignedPointInputs] : n \in 0 .. MaxPoints}

\* The sequencer before any run, for the runs of the other components.
MachineParked ==
    /\ motors = [n \in MotorNames |-> NewMotor]
    /\ exec_sub_fsm = exec_sub_fsm_init(exec_sub_fsm_get_default_config, 0)
    /\ points = <<>>
    /\ machine_call = [op |-> "none", trace |-> <<>>, pulled |-> FALSE,
                       cmd |-> EmptyCommand, loaded |-> FALSE, size |-> 0,
                       run |-> 0]

\* Variant: a re-entry keeps the sequencer of the run before.
reinitialised_resume(R, cfg, t) == R

\* The machine after exec_sub_fsm_init at time t: the memset clears the
\* handle of the parser instance of the run before, which nothing refers
\* to any more.
reinitialised(R, cfg, t) ==
    [R EXCEPT !.e = exec_sub_fsm_init(cfg, t), !.p = NewParser]

\* exec_sub_fsm_init on re-entry, with the configuration in use.
ReInit ==
    /\ machine_call.op = "process"
    /\ exec_sub_fsm.sub_state # EXEC_STATE_IDLE
    /\ machine_call.run < MaxRuns
    /\ SetMachine("init", [reinitialised(Machine, exec_sub_fsm.config, now)
                              EXCEPT !.run = @ + 1])

\* One tick in point-list mode.
ProcessPoints ==
    /\ machine_call.op \in {"init", "process"}
    /\ \E R \in {exec_sub_fsm_process(Machine, points, now)} : SetMachine("process", R)

\* exec_sub_fsm_load_gcode_from_ram on a sequencer just initialised.
LoadGcode ==
    /\ machine_call.op = "init"
    /\ machine_call.run = 1
    /\ \E program \in MachinePrograms \cup {<<>>}, acquired \in BOOLEAN :
         SetMachine("load", exec_sub_fsm_load_gcode_from_ram(
                                Machine, Buffer(program), Len(program), acquired))

\* One tick in program mode.
ProcessGcode ==
    /\ machine_call.op \in {"load", "process_gcode"}
    /\ exec_sub_fsm.sub_state # EXEC_STATE_COMPLETE
    /\ \E R \in {exec_sub_fsm_process_gcode(Machine, now)} :
          SetMachine("process_gcode", R)

\* exec_sub_fsm_cleanup_gcode, as on_execute_executing calls it.
CleanupGcode ==
    /\ exec_sub_fsm.sub_state = EXEC_STATE_COMPLETE
    /\ exec_sub_fsm.gcode_parser_handle
    /\ SetMachine("cleanup", exec_sub_fsm_cleanup_gcode(Machine))

\* The millisecond clock advances by dt.
TimePasses(dt) ==
    /\ now' = now + dt
    /\ UNCHANGED <<handle_vars, last>>

\* The time a soldering point waits for goes by.
SolderClock ==
    /\ exec_sub_fsm.sub_state = EXEC_STATE_SOLDERING
    /\ exec_sub_fsm.operation_in_progress
    /\ now - exec_sub_fsm.solder_start_time
          < points[exec_sub_fsm.current_point_index + 1].solder_time_ms
    /\ TimePasses(100)

\* ========================================================================
\* The station as wired by main.cpp: hooks, control task, web handlers
\* ========================================================================
\* Settings of main.cpp, temperatures in whole degrees, times in ms.
target_temperature_main == 350
temperature_tolerance == 5
safe_temperature == 50
heating_timeout_ms == 60000
cooldown_timeout_ms == 120000
\* "if (time_since_start > 500)" of on_execute_calibration.
calibration_settle_ms == 500
\* "current_temp = 200.0;  // Assume hot if sensor fails"
assumed_hot_temperature == 200
\* Value of get_current_temperature when the read fails.
read_error_temperature == -1
\* Period of fsm_task.
tick_rate_ms == 100
\* Gains given to soldering_iron_hal_set_pid_constants by
\* init_heating_system, in tenths.
main_pid_kp == 20
main_pid_ki == 5
main_pid_kd == 10
\* Time step of the regulator between the updates of two ticks, in the
\* unit of the heater model.
control_dt == 1

\* Events waiting at which the web handlers are no longer called.
MaxBacklog == 2
\* Blocks of the heap the uploads are served from.
MaxBlocks == 2

VARIABLES
    g_gcode,        \* g_gcode_buffer (a block of the heap, NULL for none),
                    \* g_gcode_size and g_gcode_loaded
    heap,           \* the blocks: whether allocated, and their bytes
    g_gcode_mutex,  \* the task that holds g_gcode_mutex, "none" when free
    tasks,          \* where the upload handler and on_enter_executing are
                    \* in their code, with their locals, and the last access
                    \* either made to the shared buffer
    tick_io         \* what the last tick read from the sensor and the
                    \* events its hooks posted, in order

station_vars == <<g_gcode, heap, g_gcode_mutex, tasks, tick_io>>

Blocks == 1 .. MaxBlocks

\* --- The heater seen by the hooks: the fields of the handle as one value.
Heater ==
    [is_enabled |-> iron_is_enabled, current_power_pct |-> current_power_pct,
     pwm_duty |-> pwm_duty, target_temperature |-> target_temperature,
     pid_integral |-> pid_integral, pid_last_error |-> pid_last_error]

\* soldering_iron_hal_set_power on the value I.
iron_set_power(I, duty_cycle) ==
    IF ~iron_handle THEN I
    ELSE [I EXCEPT !.current_power_pct = clamp_power(duty_cycle),
                   !.pwm_duty = applied_duty(I.is_enabled, clamp_power(duty_cycle))]

\* soldering_iron_hal_set_target_temperature on the value I.
iron_set_target_temperature(I, temperature) ==
    IF iron_handle /\ target_changed(clamp_temperature(temperature), I.target_temperature)
    THEN [I EXCEPT !.target_temperature = clamp_temperature(temperature),
                   !.pid_integral = 0, !.pid_last_error = 0]
    ELSE I

\* soldering_iron_hal_set_enable on the value I.
iron_set_enable(I, enable) ==
    IF ~iron_handle THEN I
    ELSE IF ~enable
    THEN [I EXCEPT !.is_enabled = FALSE,
                   !.current_power_pct = clamp_power(0),
                   !.pwm_duty = applied_duty(FALSE, clamp_power(0))]
    ELSE [I EXCEPT !.is_enabled = TRUE, !.pid_integral = 0, !.pid_last_error = 0]

\* soldering_iron_hal_update_control on the value I.
iron_update_control(I, current_temperature, dt) ==
    IF ~iron_handle THEN I
    ELSE IF ~I.is_enabled \/ I.target_temperature <= 0
    THEN (IF I.current_power_pct > 0 THEN iron_set_power(I, 0) ELSE I)
    ELSE IF dt = 0 THEN I
    ELSE LET error == fsub(I.target_temperature, current_temperature)
             integral == clamp_integral(fadd(I.pid_integral, fmul(error, dt)))
             output_power == fmax(POWER_MIN, fmin(POWER_MAX,
                                 pid_output(error, integral, I.pid_last_error, dt)))
         IN iron_set_power([I EXCEPT !.pid_integral = integral,
                                     !.pid_last_error = error], output_power)

\* soldering_iron_hal_get_target_temperature
iron_get_target_temperature(I) == IF iron_handle THEN I.target_temperature ELSE 0

\* --- The station while a tick runs: the controller h, the machine R,
\* the heater I, the reading taken (NoReading when the sensor was not
\* read), the events posted by the hooks and the value the last hook
\* returned; failed_run is the number of the last entry into Executing
\* that found no program or could not load it.
NoReading == -2

Station ==
    [h |-> Handle, R |-> Machine, I |-> Heater, reading |-> NoReading,
     posted |-> <<>>, failed_run |-> tick_io.failed_run, ret |-> TRUE]

\* fsm_controller_post_event called by a hook.
hook_post(W, event) ==
    [W EXCEPT !.h.event_queue = post_event(@, event).queue,
              !.posted = Append(@, event)]

\* The bytes g_gcode_buffer points to, as the loader's argument.
gcode_argument(g, hp) ==
    IF g.buffer = NULL THEN NullBuffer ELSE Buffer(hp[g.buffer].bytes)

on_enter_idle(W) == [W EXCEPT !.I = iron_set_enable(@, FALSE), !.ret = TRUE]

on_enter_calibration(W) == [W EXCEPT !.ret = TRUE]

on_execute_calibration(W, t) ==
    LET ctx == W.h.exec_context
        calibrated(n, count) ==
            [W EXCEPT !.R.m[n] = motor_calibrate(n, @),
                      !.h.exec_context.iteration_count = count,
                      !.ret = TRUE]
    IN CASE ctx.iteration_count = 0 -> calibrated("x", 1)
         [] ctx.iteration_count = 1 -> calibrated("y", 2)
         [] ctx.iteration_count = 2 -> calibrated("z", 3)
         [] ctx.iteration_count = 3 /\ ~ctx.operation_complete
              /\ t - ctx.start_time_ms > calibration_settle_ms ->
                hook_post([W EXCEPT !.h.exec_context.operation_complete = TRUE,
                                    !.ret = TRUE],
                          FSM_EVENT_CALIBRATION_SUCCESS)
         [] OTHER -> [W EXCEPT !.ret = TRUE]

on_enter_ready(W) == [W EXCEPT !.ret = TRUE]

on_enter_heating(W) ==
    IF ~iron_handle
    THEN hook_post([W EXCEPT !.ret = FALSE], FSM_EVENT_HEATING_ERROR)
    ELSE [W EXCEPT !.I = iron_set_enable(
                             iron_set_target_temperature(@, target_temperature_main),
                             TRUE),
                   !.ret = TRUE]

on_execute_heating(W, t, current_temp) ==
    LET ctx == W.h.exec_context
        time_heating == t - ctx.start_time_ms
    IN IF current_temp < 0
       THEN hook_post([W EXCEPT !.reading = current_temp, !.ret = FALSE],
                      FSM_EVENT_HEATING_ERROR)
       ELSE Then([W EXCEPT !.reading = current_temp,
                           !.I = iron_update_control(@, current_temp, control_dt)],
                 LAMBDA W1 :
            IF time_heating > heating_timeout_ms
            THEN hook_post([W1 EXCEPT !.I = iron_set_enable(@, FALSE), !.ret = FALSE],
                           FSM_EVENT_HEATING_ERROR)
            ELSE IF /\ Abs(current_temp - iron_get_target_temperature(W1.I))
                          <= temperature_tolerance
                    /\ ~ctx.operation_complete
            THEN hook_post([W1 EXCEPT !.h.exec_context.operation_complete = TRUE,
                                      !.ret = TRUE],
                           FSM_EVENT_HEATING_SUCCESS)
            ELSE [W1 EXCEPT !.ret = TRUE])

\* setEnable on the four motors.
motors_setEnable(m, enable) ==
    [n \in MotorNames |-> [m[n] EXCEPT !.is_enabled = enable]]

\* "if (!g_gcode_loaded || !g_gcode_buffer)" of on_enter_executing.
no_gcode_in_ram(g) == ~g.loaded \/ g.buffer = NULL

\* Variant: the failure is logged and nothing is posted.
report_data_error_silent(W) == [W EXCEPT !.ret = FALSE, !.failed_run = W.R.run]

\* "fsm_controller_post_event(fsm_handle, FSM_EVENT_DATA_ERROR); return
\* false;" of on_enter_executing.
report_data_error(W) ==
    hook_post([W EXCEPT !.ret = FALSE, !.failed_run = W.R.run], FSM_EVENT_DATA_ERROR)

\* on_enter_executing at time t: g and hp are the shared buffer and the
\* heap as the hook finds them, acquired whether the loader gets the
\* mutex and its memory.
on_enter_executing(W, t, g, hp, acquired) ==
    Then([W EXCEPT !.R = [reinitialised([@ EXCEPT !.m = motors_setEnable(@, TRUE)],
                                        exec_config, t)
                             EXCEPT !.run = @ + 1]],
         LAMBDA W1 :
      IF no_gcode_in_ram(g)
      THEN report_data_error(W1)
      ELSE Then(exec_sub_fsm_load_gcode_from_ram(W1.R, gcode_argument(g, hp),
                                                 g.size, acquired),
                LAMBDA R1 :
             IF ~R1.loaded
             THEN report_data_error([W1 EXCEPT !.R = R1])
             ELSE [W1 EXCEPT !.R = R1, !.ret = TRUE]))

on_execute_executing(W, t, current_temp) ==
    Then([W EXCEPT !.reading = current_temp,
                   !.I = IF current_temp > 0 /\ iron_handle
                         THEN iron_update_control(@, current_temp, control_dt)
                         ELSE @],
         LAMBDA W1 :
      Then(exec_sub_fsm_process_gcode(W1.R, t), LAMBDA R1 :
        IF R1.e.sub_state = EXEC_STATE_COMPLETE
        THEN hook_post([W1 EXCEPT !.R = exec_sub_fsm_cleanup_gcode(R1), !.ret = TRUE],
                       FSM_EVENT_TASK_DONE)
        ELSE [W1 EXCEPT !.R = R1, !.ret = TRUE]))

on_enter_normal_exit(W, t) ==
    [W EXCEPT !.I = iron_set_enable(@, FALSE),
              !.R.m = motors_setEnable(@, FALSE),
              !.h.exec_context = reset_context(t),
              !.ret = TRUE]

on_execute_normal_exit(W, t, reading) ==
    LET ctx == W.h.exec_context
        current_temp == IF reading < 0 THEN assumed_hot_temperature ELSE reading
        time_cooldown == t - ctx.start_time_ms
        W1 == [W EXCEPT !.reading = reading]
    IN IF time_cooldown > cooldown_timeout_ms
       THEN hook_post([W1 EXCEPT !.ret = FALSE], FSM_EVENT_COOLING_ERROR)
       ELSE IF current_temp <= safe_temperature /\ ~ctx.operation_complete
       THEN hook_post([W1 EXCEPT !.h.exec_context.operation_complete = TRUE,
                                 !.ret = TRUE],
                      FSM_EVENT_COOLDOWN_COMPLETE)
       ELSE [W1 EXCEPT !.ret = TRUE]

\* The callbacks init_fsm registers.
init_fsm_callbacks ==
    [on_enter |-> {FSM_STATE_IDLE, FSM_STATE_CALIBRATION, FSM_STATE_READY,
                   FSM_STATE_HEATING, FSM_STATE_EXECUTING, FSM_STATE_NORMAL_EXIT},
     on_exit |-> {},
     on_execute |-> {FSM_STATE_CALIBRATION, FSM_STATE_HEATING,
                     FSM_STATE_EXECUTING, FSM_STATE_NORMAL_EXIT}]

\* The body of the hook <kind> of <state>.
hook_body(W, kind, state, t, reading, acquired) ==
    CASE kind = "on_enter" /\ state = FSM_STATE_IDLE -> on_enter_idle(W)
      [] kind = "on_enter" /\ state = FSM_STATE_CALIBRATION -> on_enter_calibration(W)
      [] kind = "on_enter" /\ state = FSM_STATE_READY -> on_enter_ready(W)
      [] kind = "on_enter" /\ state = FSM_STATE_HEATING -> on_enter_heating(W)
      [] kind = "on_enter" /\ state = FSM_STATE_EXECUTING ->
            on_enter_executing(W, t, g_gcode, heap, acquired)
      [] kind = "on_enter" /\ state = FSM_STATE_NORMAL_EXIT -> on_enter_normal_exit(W, t)
      [] kind = "on_execute" /\ state = FSM_STATE_CALIBRATION ->
            on_execute_calibration(W, t)
      [] kind = "on_execute" /\ state = FSM_STATE_HEATING ->
            on_execute_heating(W, t, reading)
      [] kind = "on_execute" /\ state = FSM_STATE_EXECUTING ->
            on_execute_executing(W, t, reading)
      [] kind = "on_execute" /\ state = FSM_STATE_NORMAL_EXIT ->
            on_execute_normal_exit(W, t, reading)
      [] OTHER -> W

\* "if (callbacks[state].<kind>) callbacks[state].<kind>(user_data)" with
\* the hooks of main.cpp, and its record among the calls of the tick.
call_hook(W, kind, state, t, reading, acquired) ==
    IF state \notin W.h.callbacks[kind] THEN W
    ELSE Then(hook_body(W, kind, state, t, reading, acquired), LAMBDA Wa :
           [Wa EXCEPT !.h.hooks =
               Append(W.h.hooks, [ kind |-> kind, state |-> state,
                                   seen_state |-> W.h.current_state,
                                   seen_context |-> W.h.exec_context,
                                   seen_statistics |-> W.h.statistics,
                                   returned |-> Wa.ret ])])

\* transition_to_state with the hooks of main.cpp.
station_transition(W, new_state, t, reading, acquired) ==
    IF new_state >= FSM_STATE_COUNT THEN W
    ELSE Then(call_hook(W, "on_exit", W.h.current_state, t, reading, acquired),
              LAMBDA Wx :
           call_hook([Wx EXCEPT !.h = transition_switch(@, new_state, t)],
                     "on_enter", new_state, t, reading, acquired))

\* fsm_controller_process with the hooks of main.cpp: W is the station at
\* entry, t the clock, reading what the sensor delivers if it is read and
\* acquired whether a load gets its mutex and memory.
station_process(W, t, reading, acquired) ==
    LET r == xQueueReceive(W.h.event_queue)
        W0 == [W EXCEPT !.h.event_queue = r.queue]
    IN Then(IF r.ok
            THEN station_transition(W0, find_next_state(W.h.current_state, r.event),
                                    t, reading, acquired)
            ELSE W0,
            LAMBDA W1 :
         call_hook(W1, "on_execute", execute_hook_state(W.h, W1.h),
                   t, reading, acquired))

\* --- Actions of the station
NoIo == [reading |-> NoReading, posted |-> <<>>, failed_run |-> 0]

\* Both tasks outside the code that touches the shared buffer.
NoAccess == [task |-> "none", what |-> "none", held |-> TRUE, stale |-> FALSE]

IdleTasks ==
    [upload |-> [pc |-> "idle", program |-> <<>>, uploads |-> 0],
     control |-> [pc |-> "idle", buffer |-> NULL, size |-> 0, todo |-> {}],
     access |-> NoAccess,
     copied |-> <<>>]

FreeBlock == [live |-> FALSE, bytes |-> <<>>]

\* The heater after a tick.
SetHeater(I) ==
    /\ iron_is_enabled' = I.is_enabled
    /\ current_power_pct' = I.current_power_pct
    /\ pwm_duty' = I.pwm_duty
    /\ target_temperature' = I.target_temperature
    /\ pid_integral' = I.pid_integral
    /\ pid_last_error' = I.pid_last_error
    /\ UNCHANGED <<iron_handle, pid_kp, pid_ki, pid_kd, iron_call>>

\* What the sensor can deliver: a failed read, a cold tip, a tip at the
\* target.
SensorReadings == {read_error_temperature, 30, target_temperature_main}

\* One iteration of fsm_task: fsm_controller_process with the hooks of
\* main.cpp.
fsm_task_within(transitions, reading, acquired) ==
    LET r == xQueueReceive(event_queue)
        next == IF r.ok THEN find_next_state(current_state, r.event)
                ELSE FSM_STATE_COUNT
        moves == next < FSM_STATE_COUNT
    IN /\ is_running
       /\ (moves /\ config.enable_statistics)
             => SumOver(statistics.state_enter_count, States) < transitions
       /\ \E W \in {station_process(Station, now, reading, acquired)} :
            /\ SetHandle(W.h)
            /\ last' = [op |-> "process", arg |-> NoEvent, ret |-> moves,
                        got |-> r.ok, hooks |-> W.h.hooks]
            /\ SetMachine("tick", W.R)
            /\ SetHeater(W.I)
            /\ tick_io' = [reading |-> W.reading, posted |-> W.posted,
                           failed_run |-> W.failed_run]
            /\ UNCHANGED <<now, axis_vars, g_gcode, heap, g_gcode_mutex, tasks>>

fsm_task(reading, acquired) == fsm_task_within(MaxTransitions, reading, acquired)

\* A handler of web_server.cpp that posts one event and touches nothing
\* else.
web_post(event) ==
    /\ Len(event_queue) < MaxBacklog
    /\ fsm_controller_post_event(event)
    /\ UNCHANGED <<axis_vars, iron_vars, gcode_vars, machine_vars, station_vars>>

\* Variant: the stop handler posts what its comment says ("Post FSM event:
\* Task approved (to start execution)").
gcode_stop_handler_approves == web_post(FSM_EVENT_TASK_APPROVED)

gcode_stop_handler == web_post(FSM_EVENT_EXIT_REQUEST)
gcode_pause_handler == web_post(FSM_EVENT_PAUSE_REQUEST)
gcode_resume_handler == web_post(FSM_EVENT_CONTINUE_TASK)

\* free(g_gcode_buffer)
heap_free(hp, block) == IF block = NULL THEN hp ELSE [hp EXCEPT ![block] = FreeBlock]

\* The shared buffer and the heap after the "Store GCode in global RAM
\* buffer" part of gcode_upload_handler, malloc returning block (NULL
\* when it fails).
gcode_upload_store(g, hp, program, block) ==
    IF block = NULL
    THEN [g |-> [g EXCEPT !.buffer = NULL], heap |-> heap_free(hp, g.buffer),
          ok |-> FALSE]
    ELSE [g |-> [buffer |-> block, size |-> Len(program), loaded |-> TRUE],
          heap |-> [heap_free(hp, g.buffer) EXCEPT
                       ![block] = [live |-> TRUE, bytes |-> program]],
          ok |-> TRUE]

\* Blocks malloc can return once the old buffer is freed.
free_blocks(g, hp) == {b \in Blocks : ~heap_free(hp, g.buffer)[b].live}

\* Variant: the handler validates with the sequencer's instance, which is
\* left loaded with the upload and read to its end.
upload_validation_shared(P, program) ==
    [loaded_parser(Buffer(program), Len(program))
        EXCEPT !.current_position = Len(program)]

\* The sequencer's parser instance after the "Validate GCode using parser"
\* part of gcode_upload_handler: the handler loads and reads the upload
\* with an instance of its own (gcode_parser_init ... gcode_parser_deinit).
upload_validation(P, program) == P

\* gcode_upload_handler as one step, for a body that passed its checks.
gcode_upload_handler(program, block) ==
    LET s == gcode_upload_store(g_gcode, heap, program, block)
        P == upload_validation(ParserState, program)
    IN
    /\ Len(event_queue) < MaxBacklog
    /\ program_buffer' = P.program_buffer
    /\ current_position' = P.current_position
    /\ current_line' = P.current_line
    /\ is_loaded' = P.is_loaded
    /\ g_gcode' = s.g
    /\ heap' = s.heap
    /\ IF s.ok
       THEN fsm_controller_post_event(FSM_EVENT_TASK_SENT)
       ELSE last' = Quiet /\ UNCHANGED <<handle_vars, now>>
    /\ UNCHANGED <<axis_vars, iron_vars, gcode_call, machine_vars,
                   g_gcode_mutex, tasks, tick_io>>

\* Programs the operator uploads.
StationPrograms == {join_lines(<<MoveXYZ, Feed>>), join_lines(<<Comment>>)}

Upload ==
    \E program \in StationPrograms :
      \E block \in {NULL} \cup {MinOf(free_blocks(g_gcode, heap))} :
        gcode_upload_handler(program, block)

\* The events of the table that the handlers of web_server.cpp do not post
\* (gcode_start_handler answers without posting) and that a client of
\* fsm_controller_post_event supplies: the request for a calibration and
\* the approval of the task.
OperatorEvents == {FSM_EVENT_REQUEST_CALIBRATION, FSM_EVENT_TASK_APPROVED}

OperatorPost == \E e \in OperatorEvents : web_post(e)

\* The time a hook waits for goes by: vTaskDelay gives the period of
\* fsm_task a lower bound only, and the next tick comes a period after the
\* wait is over.
wait_of_state ==
    CASE current_state = FSM_STATE_CALIBRATION
           /\ exec_context.iteration_count = 3 -> calibration_settle_ms
      [] current_state = FSM_STATE_HEATING -> heating_timeout_ms
      [] current_state = FSM_STATE_NORMAL_EXIT -> cooldown_timeout_ms
      [] OTHER -> -1

StationClock ==
    /\ wait_of_state >= 0
    /\ now - exec_context.start_time_ms <= wait_of_state
    /\ now' = exec_context.start_time_ms + wait_of_state + tick_rate_ms
    /\ last' = Quiet
    /\ UNCHANGED <<handle_vars, axis_vars, iron_vars, gcode_vars, machine_vars,
                   station_vars>>

\* ------------------------------------------------------------------------
\* The shared command buffer statement by statement: the upload handler
\* runs in the task of the HTTP server, on_enter_executing in fsm_task, and
\* either may be preempted between any two of its statements.
\* ------------------------------------------------------------------------
\* Requests with a valid body that are served.
MaxUploads == 2

\* Bytes that are none of the uploaded programs: what a read of freed or
\* uninitialised memory, or past the end of a block, can deliver.
Garbage == <<"?">>

\* What is left alone by the statements that touch the buffer only.
buffer_rest == <<axis_vars, iron_vars, gcode_vars, machine_vars, tick_io>>

\* An access of a task to g_gcode_buffer, g_gcode_size or g_gcode_loaded:
\* held tells whether the task holds g_gcode_mutex at that statement.
Access(mutex, task, what, stale) ==
    [task |-> task, what |-> what, held |-> mutex = task, stale |-> stale]

\* xSemaphoreTake(g_gcode_mutex, pdMS_TO_TICKS(5000)) == pdTRUE: the task
\* waits while another holds the mutex and gives up when the wait is over.
xSemaphoreTake(mutex, task) ==
    IF mutex = "none" THEN [mutex |-> task, ok |-> TRUE]
    ELSE [mutex |-> mutex, ok |-> FALSE]

\* xSemaphoreGive(g_gcode_mutex)
xSemaphoreGive(mutex, task) == IF mutex = task THEN "none" ELSE mutex

\* malloc: a block that is not in use, with whatever bytes it holds.
heap_malloc(hp, block) ==
    IF block = NULL THEN hp
    ELSE [hp EXCEPT ![block] = [live |-> TRUE, bytes |-> Garbage]]

\* memcpy(dst, program, Len(program))
heap_write(hp, block, program) == [hp EXCEPT ![block].bytes = program]

\* What memcpy(..., gcode_buffer, buffer_size) of gcode_parser_load_program
\* can deliver: the first buffer_size bytes of a block in use that has
\* them; otherwise the read is of freed memory or runs past the block, and
\* delivers the bytes of a program once stored there or anything else.
memcpy_outcomes(hp, gcode_buffer, buffer_size) ==
    IF hp[gcode_buffer].live /\ Len(hp[gcode_buffer].bytes) >= buffer_size
    THEN {SubSeq(hp[gcode_buffer].bytes, 1, buffer_size)}
    ELSE {Garbage} \cup {SubSeq(p, 1, buffer_size) :
                           p \in {q \in StationPrograms : Len(q) >= buffer_size}}

\* The pointer and size the loader was given are no longer those of the
\* shared buffer, or the block has been freed.
stale_pair(g, hp, gcode_buffer, buffer_size) ==
    \/ ~hp[gcode_buffer].live
    \/ gcode_buffer # g.buffer
    \/ buffer_size # g.size

\* --- gcode_upload_handler, from the validated body on
UploadBegin ==
    \E program \in StationPrograms :
      /\ tasks.upload.pc = "idle"
      /\ tasks.upload.uploads < MaxUploads
      /\ tasks' = [tasks EXCEPT !.upload = [pc |-> "take", program |-> program,
                                            uploads |-> @.uploads + 1]]
      /\ UNCHANGED <<g_gcode, heap, g_gcode_mutex, fsm_vars, buffer_rest>>

\* "if (!g_gcode_mutex || xSemaphoreTake(...) != pdTRUE) ... return ESP_FAIL"
UploadTake ==
    LET r == xSemaphoreTake(g_gcode_mutex, "upload") IN
    /\ tasks.upload.pc = "take"
    /\ g_gcode_mutex' = r.mutex
    /\ tasks' = [tasks EXCEPT !.upload.pc = IF r.ok THEN "free" ELSE "idle"]
    /\ UNCHANGED <<g_gcode, heap, fsm_vars, buffer_rest>>

\* "if (g_gcode_buffer) free(g_gcode_buffer);"
UploadFree ==
    /\ tasks.upload.pc = "free"
    /\ heap' = heap_free(heap, g_gcode.buffer)
    /\ tasks' = [tasks EXCEPT !.upload.pc = "malloc",
                              !.access = Access(g_gcode_mutex, "upload", "buffer", FALSE)]
    /\ UNCHANGED <<g_gcode, g_gcode_mutex, fsm_vars, buffer_rest>>

\* "g_gcode_buffer = (char*)malloc(gcode_len + 1); if (!g_gcode_buffer)
\* { xSemaphoreGive(g_gcode_mutex); ... return ESP_FAIL; }"
UploadMalloc ==
    \E block \in {NULL} \cup {b \in Blocks : ~heap[b].live} :
      /\ tasks.upload.pc = "malloc"
      /\ heap' = heap_malloc(heap, block)
      /\ g_gcode' = [g_gcode EXCEPT !.buffer = block]
      /\ g_gcode_mutex' = IF block = NULL
                          THEN xSemaphoreGive(g_gcode_mutex, "upload")
                          ELSE g_gcode_mutex
      /\ tasks' = [tasks EXCEPT !.upload.pc = IF block = NULL THEN "idle" ELSE "memcpy",
                                !.access = Access(g_gcode_mutex, "upload", "buffer", FALSE)]
      /\ UNCHANGED <<fsm_vars, buffer_rest>>

\* "memcpy(g_gcode_buffer, gcode_content, gcode_len);"
UploadMemcpy ==
    /\ tasks.upload.pc = "memcpy"
    /\ heap' = heap_write(heap, g_gcode.buffer, tasks.upload.program)
    /\ tasks' = [tasks EXCEPT !.upload.pc = "size",
                              !.access = Access(g_gcode_mutex, "upload", "buffer", FALSE)]
    /\ UNCHANGED <<g_gcode, g_gcode_mutex, fsm_vars, buffer_rest>>

\* "g_gcode_size = gcode_len;"
UploadSize ==
    /\ tasks.upload.pc = "size"
    /\ g_gcode' = [g_gcode EXCEPT !.size = Len(tasks.upload.program)]
    /\ tasks' = [tasks EXCEPT !.upload.pc = "loaded",
                              !.access = Access(g_gcode_mutex, "upload", "size", FALSE)]
    /\ UNCHANGED <<heap, g_gcode_mutex, fsm_vars, buffer_rest>>

\* "g_gcode_loaded = true;"
UploadLoaded ==
    /\ tasks.upload.pc = "loaded"
    /\ g_gcode' = [g_gcode EXCEPT !.loaded = TRUE]
    /\ tasks' = [tasks EXCEPT !.upload.pc = "give",
                              !.access = Access(g_gcode_mutex, "upload", "loaded", FALSE)]
    /\ UNCHANGED <<heap, g_gcode_mutex, fsm_vars, buffer_rest>>

\* "xSemaphoreGive(g_gcode_mutex);"
UploadGive ==
    /\ tasks.upload.pc = "give"
    /\ g_gcode_mutex' = xSemaphoreGive(g_gcode_mutex, "upload")
    /\ tasks' = [tasks EXCEPT !.upload.pc = "post"]
    /\ UNCHANGED <<g_gcode, heap, fsm_vars, buffer_rest>>

\* "fsm_controller_post_event(server_handle->fsm_handle, FSM_EVENT_TASK_SENT)"
UploadPost ==
    /\ tasks.upload.pc = "post"
    /\ fsm_controller_post_event(FSM_EVENT_TASK_SENT)
    /\ tasks' = [tasks EXCEPT !.upload.pc = "idle"]
    /\ UNCHANGED <<g_gcode, heap, g_gcode_mutex, buffer_rest>>

\* --- on_enter_executing and exec_sub_fsm_load_gcode_from_ram, from the
\* test of the shared buffer on
EnterExecuting ==
    /\ tasks.control.pc = "idle"
    /\ tasks' = [tasks EXCEPT !.control = [pc |-> "loaded", buffer |-> NULL,
                                           size |-> 0, todo |-> {"buffer", "size"}],
                              !.copied = <<>>]
    /\ UNCHANGED <<g_gcode, heap, g_gcode_mutex, fsm_vars, buffer_rest>>

\* "if (!g_gcode_loaded || ..." : DATA_ERROR and return when not loaded.
ReadLoaded ==
    /\ tasks.control.pc = "loaded"
    /\ tasks' = [tasks EXCEPT !.control.pc = IF g_gcode.loaded THEN "buffer" ELSE "idle",
                              !.access = Access(g_gcode_mutex, "control", "loaded", FALSE)]
    /\ UNCHANGED <<g_gcode, heap, g_gcode_mutex, fsm_vars, buffer_rest>>

\* "... || !g_gcode_buffer)" : DATA_ERROR and return when the pointer is null.
ReadBuffer ==
    /\ tasks.control.pc = "buffer"
    /\ tasks' = [tasks EXCEPT !.control.pc = IF g_gcode.buffer # NULL THEN "args" ELSE "idle",
                              !.access = Access(g_gcode_mutex, "control", "buffer", FALSE)]
    /\ UNCHANGED <<g_gcode, heap, g_gcode_mutex, fsm_vars, buffer_rest>>

\* The arguments of "exec_sub_fsm_load_gcode_from_ram(&exec_sub_fsm,
\* g_gcode_buffer, g_gcode_size)", read one after the other in the order
\* the build chooses.
ReadArgument ==
    \E a \in tasks.control.todo :
      /\ tasks.control.pc = "args"
      /\ tasks' = [tasks EXCEPT
                     !.control = [pc |-> IF @.todo = {a} THEN "check" ELSE "args",
                                  buffer |-> IF a = "buffer" THEN g_gcode.buffer ELSE @.buffer,
                                  size |-> IF a = "size" THEN g_gcode.size ELSE @.size,
                                  todo |-> @.todo \ {a}],
                     !.access = Access(g_gcode_mutex, "control", a, FALSE)]
      /\ UNCHANGED <<g_gcode, heap, g_gcode_mutex, fsm_vars, buffer_rest>>

\* "if (!fsm || !gcode_buffer || buffer_size == 0) return false;"
LoadCheck ==
    /\ tasks.control.pc = "check"
    /\ tasks' = [tasks EXCEPT !.control.pc =
                    IF tasks.control.buffer = NULL \/ tasks.control.size = 0
                    THEN "idle" ELSE "take"]
    /\ UNCHANGED <<g_gcode, heap, g_gcode_mutex, fsm_vars, buffer_rest>>

\* "if (!g_gcode_mutex || xSemaphoreTake(...) != pdTRUE) return false;"
LoadTake ==
    LET r == xSemaphoreTake(g_gcode_mutex, "control") IN
    /\ tasks.control.pc = "take"
    /\ g_gcode_mutex' = r.mutex
    /\ tasks' = [tasks EXCEPT !.control.pc = IF r.ok THEN "copy" ELSE "idle"]
    /\ UNCHANGED <<g_gcode, heap, fsm_vars, buffer_rest>>

\* "gcode_parser_load_program(parser, gcode_buffer, buffer_size)": the
\* parser copies buffer_size bytes from gcode_buffer.
LoadCopy ==
    LET c == tasks.control IN
    /\ c.pc = "copy"
    /\ \E bytes \in memcpy_outcomes(heap, c.buffer, c.size) :
      /\ tasks' = [tasks EXCEPT
                     !.control.pc = "give",
                     !.copied = bytes,
                     !.access = Access(g_gcode_mutex, "control", "copy",
                                       stale_pair(g_gcode, heap, c.buffer, c.size))]
      /\ UNCHANGED <<g_gcode, heap, g_gcode_mutex, fsm_vars, buffer_rest>>

\* "xSemaphoreGive(g_gcode_mutex);  // Release mutex - parser has its own copy now"
LoadGive ==
    /\ tasks.control.pc = "give"
    /\ g_gcode_mutex' = xSemaphoreGive(g_gcode_mutex, "control")
    /\ tasks' = [tasks EXCEPT !.control.pc = "idle"]
    /\ UNCHANGED <<g_gcode, heap, fsm_vars, buffer_rest>>

\* The shared buffer before any upload, both tasks idle.
StationParked ==
    /\ g_gcode = [buffer |-> NULL, size |-> 0, loaded |-> FALSE]
    /\ heap = [b \in Blocks |-> FreeBlock]
    /\ g_gcode_mutex = "none"
    /\ tasks = IdleTasks
    /\ tick_io = NoIo

\* ========================================================================
\* Specifications
\* ========================================================================
vars == <<fsm_vars, axis_vars, iron_vars, gcode_vars, machine_vars, station_vars>>

\* What each component leaves alone: the state of the others.
not_fsm_vars == <<axis_vars, iron_vars, gcode_vars, machine_vars, station_vars>>
not_axis_vars == <<fsm_vars, iron_vars, gcode_vars, machine_vars, station_vars>>
not_iron_vars == <<fsm_vars, axis_vars, gcode_vars, machine_vars, station_vars>>
not_gcode_vars == <<fsm_vars, axis_vars, iron_vars, machine_vars, station_vars>>

\* The axis as constructed by default, for the runs of the controller.
AxisParked ==
    /\ position_ = 0
    /\ target_position_ = 0
    /\ handle_ = TRUE
    /\ positive_direction_ = STEPPER_DIR_COUNTERCLOCKWISE
    /\ hal_is_enabled = FALSE
    /\ hal_direction = STEPPER_DIR_CLOCKWISE
    /\ has_endpoint = FALSE
    /\ switch_low = FALSE
    /\ calibrating = FALSE
    /\ ennable_state = FALSE
    /\ calib_bursts = 0
    /\ axis_call = Call("constructor", 0)

\* The heater as initialised, for the runs of the other components.
IronParked == InitIron /\ iron_handle

\* The parser as initialised, for the runs of the other components.
ParserParked == InitParser

\* The controller as constructed, for the runs of the other components.
FsmParked ==
    /\ InitFsm
    /\ config.enable_statistics
    /\ MachineParked
    /\ StationParked

\* State after init_fsm's fsm_controller_init, the axis left as constructed.
InitController ==
    InitFsm /\ AxisParked /\ IronParked /\ ParserParked /\ MachineParked
    /\ StationParked

\* State after the construction of an axis, the controller left as created.
InitMotor == FsmParked /\ InitAxis /\ IronParked /\ ParserParked

\* State after soldering_iron_hal_init, the rest left as constructed.
InitHeater == FsmParked /\ AxisParked /\ InitIron /\ ParserParked

\* State after gcode_parser_init, the rest left as constructed.
InitGcode == FsmParked /\ AxisParked /\ IronParked /\ InitParser

\* A parser just initialised and a caller holding one line of text.
InitLine ==
    /\ FsmParked /\ AxisParked /\ IronParked
    /\ program_buffer = <<>>
    /\ current_position = 0
    /\ current_line = 0
    /\ is_loaded = FALSE
    /\ \E line \in ParseInputs : gcode_call = GcodeCall("line", line, FALSE, EmptyCommand)

\* --- SpecFsm: the lifecycle engine with its hooks.  Events arrive one at
\* a time: producers (tasks and hooks) post into an empty queue only; the
\* backlog is the subject of SpecQueue.
PostFsm ==
    \E e \in EventInputs :
        /\ event_queue = <<>>
        /\ fsm_controller_post_event(e)

StartFsm == event_queue = <<>> /\ fsm_controller_start

RegisterFsm ==
    \E S \in RegisterInputs : fsm_controller_register_callbacks(HookKinds, S)

ProcessFsm == fsm_controller_process(ContextWrites, HookEvents, 1)

NextFsm ==
    \/ StartFsm /\ UNCHANGED not_fsm_vars
    \/ fsm_controller_stop /\ UNCHANGED not_fsm_vars
    \/ PostFsm /\ UNCHANGED not_fsm_vars
    \/ RegisterFsm /\ UNCHANGED not_fsm_vars
    \/ ProcessFsm /\ UNCHANGED not_fsm_vars

SpecFsm == InitController /\ [][NextFsm]_vars

\* --- SpecStats: the statistics under the clock and reset_statistics, no
\* hook registered.
ProcessStats == fsm_controller_process({}, {}, 1)

\* The clock is read by transitions only; it advances while no event waits.
ClockStats == event_queue = <<>> /\ AdvanceTime

NextStats ==
    \/ StartFsm /\ UNCHANGED not_fsm_vars
    \/ PostFsm /\ UNCHANGED not_fsm_vars
    \/ fsm_controller_reset_statistics /\ UNCHANGED not_fsm_vars
    \/ ClockStats /\ UNCHANGED not_fsm_vars
    \/ ProcessStats /\ UNCHANGED not_fsm_vars

SpecStats == InitController /\ [][NextStats]_vars

\* --- SpecQueue: the event queue under producers that never hold back.
PostQueue == \E e \in QueueEvents \cup {FSM_EVENT_COUNT} : fsm_controller_post_event(e)

RegisterQueue ==
    \E S \in RegisterInputs : fsm_controller_register_callbacks({"on_execute"}, S)

ProcessQueue == fsm_controller_process({}, QueueEvents, EVENT_QUEUE_LENGTH + 1)

NextQueue ==
    \/ fsm_controller_start /\ UNCHANGED not_fsm_vars
    \/ PostQueue /\ UNCHANGED not_fsm_vars
    \/ RegisterQueue /\ UNCHANGED not_fsm_vars
    \/ ProcessQueue /\ UNCHANGED not_fsm_vars

SpecQueue == InitController /\ [][NextQueue]_vars

\* --- SpecHooks: the engine with hooks that may return failure, under the
\* clock; events arrive one at a time.
ProcessHooks == fsm_controller_process(FailingWrites, {}, 1)

NextHooks ==
    \/ StartFsm /\ UNCHANGED not_fsm_vars
    \/ PostFsm /\ UNCHANGED not_fsm_vars
    \/ RegisterFsm /\ UNCHANGED not_fsm_vars
    \/ ClockStats /\ UNCHANGED not_fsm_vars
    \/ ProcessHooks /\ UNCHANGED not_fsm_vars

SpecHooks == InitController /\ [][NextHooks]_vars

\* --- SpecAxis: one axis under every operation of its interface.
NextAxis ==
    \/ \E v \in TargetInputs : setTargetPosition(v) /\ UNCHANGED not_axis_vars
    \/ \E b \in BOOLEAN : setEnable(b) /\ UNCHANGED not_axis_vars
    \/ \E d \in Directions : setDirection(d) /\ UNCHANGED not_axis_vars
    \/ step /\ UNCHANGED not_axis_vars
    \/ \E n \in StepInputs : stepMultiple(n) /\ UNCHANGED not_axis_vars
    \/ \E n \in StepInputs : stepMultipleToTarget(n) /\ UNCHANGED not_axis_vars
    \/ resetPosition /\ UNCHANGED not_axis_vars
    \/ calibrate_begin /\ UNCHANGED not_axis_vars
    \/ calibrate_burst /\ UNCHANGED not_axis_vars
    \/ calibrate_end /\ UNCHANGED not_axis_vars
    \/ SwitchChange /\ UNCHANGED not_axis_vars

SpecAxis == InitMotor /\ [][NextAxis]_vars

\* --- SpecIron: the heater under every operation of its interface, with
\* any reading and any time step.
NextIron ==
    \/ \E d \in PowerInputs : soldering_iron_hal_set_power(d) /\ UNCHANGED not_iron_vars
    \/ \E t \in TargetTemperatureInputs : soldering_iron_hal_set_target_temperature(t) /\ UNCHANGED not_iron_vars
    \/ \E b \in BOOLEAN : soldering_iron_hal_set_enable(b) /\ UNCHANGED not_iron_vars
    \/ \E g \in GainInputs : soldering_iron_hal_set_pid_constants(g[1], g[2], g[3]) /\ UNCHANGED not_iron_vars
    \/ \E t \in ReadingInputs, dt \in DtInputs : soldering_iron_hal_update_control(t, dt) /\ UNCHANGED not_iron_vars

SpecIron == InitHeater /\ [][NextIron]_vars

\* --- SpecParser: the parser under loads, iteration and resets.
NextParser ==
    \/ \E program \in ProgramInputs \cup {<<>>} : gcode_parser_load_program(program) /\ UNCHANGED not_gcode_vars
    \/ gcode_parser_get_next_command /\ UNCHANGED not_gcode_vars
    \/ gcode_parser_reset /\ UNCHANGED not_gcode_vars

SpecParser == InitGcode /\ [][NextParser]_vars

\* --- SpecParseLine: gcode_parser_parse_line applied to one line.
NextParseLine == parse_line_call /\ UNCHANGED not_gcode_vars

SpecParseLine == InitLine /\ [][NextParseLine]_vars


\* --- SpecSequencer: the sequencer on its own, in either mode, with the
\* calls its owner makes: re-initialisation, the load of a program, ticks,
\* the clean-up after the last command, and the clock.
InitSequencer ==
    /\ InitFsm /\ config.enable_statistics
    /\ AxisParked /\ IronParked /\ ParserParked
    /\ InitMachine
    /\ StationParked

sequencer_rest == <<fsm_vars, axis_vars, iron_vars, station_vars>>

NextSequencer ==
    \/ ReInit /\ UNCHANGED sequencer_rest
    \/ ProcessPoints /\ UNCHANGED sequencer_rest
    \/ LoadGcode /\ UNCHANGED sequencer_rest
    \/ ProcessGcode /\ UNCHANGED sequencer_rest
    \/ CleanupGcode /\ UNCHANGED sequencer_rest
    \/ SolderClock /\ UNCHANGED not_fsm_vars

SpecSequencer == InitSequencer /\ [][NextSequencer]_vars

\* --- SpecPointRun: one run over a point list.  The owner calls
\* exec_sub_fsm_process again and again and the clock does not stop.
NextPointRun ==
    \/ ProcessPoints /\ UNCHANGED sequencer_rest
    \/ SolderClock /\ UNCHANGED not_fsm_vars

SpecPointRun ==
    /\ InitSequencer
    /\ [][NextPointRun]_vars
    /\ WF_vars(ProcessPoints /\ UNCHANGED sequencer_rest)
    /\ WF_vars(SolderClock /\ UNCHANGED not_fsm_vars)

\* The state app_main leaves: the mutex created, the motors constructed,
\* the heater initialised (or not) with the gains of main.cpp, the
\* controller configured, its callbacks registered, and started.
InitStation ==
    /\ config = [enable_logging |-> TRUE, enable_statistics |-> TRUE]
    /\ current_state = FSM_STATE_INIT
    /\ previous_state = FSM_STATE_INIT
    /\ is_running = TRUE
    /\ now = 0
    /\ state_enter_time = 0
    /\ event_queue = <<FSM_EVENT_INIT_DONE>>
    /\ callbacks = init_fsm_callbacks
    /\ statistics = ZeroStatistics
    /\ exec_context = ZeroContext
    /\ last = Quiet
    /\ AxisParked
    /\ iron_handle \in BOOLEAN
    /\ iron_is_enabled = FALSE
    /\ current_power_pct = 0
    /\ pwm_duty = 0
    /\ target_temperature = 0
    /\ pid_kp = IF iron_handle THEN main_pid_kp ELSE DEFAULT_PID_KP
    /\ pid_ki = IF iron_handle THEN main_pid_ki ELSE DEFAULT_PID_KI
    /\ pid_kd = IF iron_handle THEN main_pid_kd ELSE DEFAULT_PID_KD
    /\ pid_integral = 0
    /\ pid_last_error = 0
    /\ iron_call = IronCall("set_pid_constants", main_pid_kp)
    /\ ParserParked
    /\ motors = [n \in MotorNames |-> NewMotor]
    /\ exec_sub_fsm = exec_sub_fsm_init(exec_sub_fsm_get_default_config, 0)
    /\ points = <<>>
    /\ machine_call = [op |-> "none", trace |-> <<>>, pulled |-> FALSE,
                       cmd |-> EmptyCommand, loaded |-> FALSE, size |-> 0,
                       run |-> 0]
    /\ StationParked

\* --- SpecSignedRun: one run over a point list whose coordinates may be
\* negative.
InitSignedRun ==
    /\ InitFsm /\ config.enable_statistics
    /\ AxisParked /\ IronParked /\ ParserParked
    /\ InitMachineOver(SignedPointLists)
    /\ StationParked

SpecSignedRun == InitSignedRun /\ [][NextPointRun]_vars

\* --- SpecStation: the station as wired.  The control task ticks, the
\* sensor delivers any reading, a load gets its mutex and memory or not,
\* and the operator uploads programs, pauses, resumes, stops and approves.
\* The state a tick made now ends in.
tick_target ==
    LET r == xQueueReceive(event_queue)
        next == IF r.ok THEN find_next_state(current_state, r.event)
                ELSE FSM_STATE_COUNT
    IN IF next < FSM_STATE_COUNT THEN next ELSE current_state

\* The sensor is read by the execute hooks of Heating, Executing and
\* NormalExit only, and a program is loaded on entry into Executing only:
\* elsewhere one value stands for all.
ReadingsOfTick ==
    IF tick_target \in {FSM_STATE_HEATING, FSM_STATE_EXECUTING, FSM_STATE_NORMAL_EXIT}
    THEN SensorReadings ELSE {NoReading}

LoadsOfTick == IF tick_target = FSM_STATE_EXECUTING THEN BOOLEAN ELSE {TRUE}

TickStation ==
    \E reading \in ReadingsOfTick, acquired \in LoadsOfTick : fsm_task(reading, acquired)

NextStation ==
    \/ TickStation
    \/ Upload
    \/ gcode_stop_handler
    \/ gcode_pause_handler
    \/ gcode_resume_handler
    \/ OperatorPost
    \/ StationClock

SpecStation == InitStation /\ [][NextStation]_vars

\* --- SpecWired: the station with the event sources of src only: the
\* hooks registered in main.cpp and the handlers of web_server.cpp.
NextWired ==
    \/ TickStation
    \/ Upload
    \/ gcode_stop_handler
    \/ gcode_pause_handler
    \/ gcode_resume_handler
    \/ StationClock

SpecWired == InitStation /\ [][NextWired]_vars

\* --- SpecResume: the station through a pause and a resume.  The operator
\* uploads, approves, pauses and resumes; a run is followed for
\* MaxResume transitions, which is what a second entry into Executing
\* takes.
MaxResume == 8

TickResume ==
    \E reading \in ReadingsOfTick, acquired \in LoadsOfTick :
        fsm_task_within(MaxResume, reading, acquired)

ApproveTask == web_post(FSM_EVENT_TASK_APPROVED)

NextResume ==
    \/ TickResume
    \/ Upload
    \/ gcode_pause_handler
    \/ gcode_resume_handler
    \/ ApproveTask
    \/ StationClock

SpecResume == InitStation /\ [][NextResume]_vars

\* --- SpecStationFair: the same with a control task that keeps ticking.
SpecStationFair == SpecStation /\ WF_vars(TickStation)

\* --- SpecBuffer: the upload handler and the entry into Executing,
\* interleaved statement by statement over the shared buffer, its heap and
\* its mutex; the rest of the station as constructed.
InitBuffer == FsmParked /\ AxisParked /\ IronParked /\ ParserParked

NextBuffer ==
    \/ UploadBegin
    \/ UploadTake
    \/ UploadFree
    \/ UploadMalloc
    \/ UploadMemcpy
    \/ UploadSize
    \/ UploadLoaded
    \/ UploadGive
    \/ UploadPost
    \/ EnterExecuting
    \/ ReadLoaded
    \/ ReadBuffer
    \/ ReadArgument
    \/ LoadCheck
    \/ LoadTake
    \/ LoadCopy
    \/ LoadGive

SpecBuffer == InitBuffer /\ [][NextBuffer]_vars


\* ========================================================================
\* Properties
\* ========================================================================
\* Vocabulary of the properties, read off the table and the observations
\* and independent of the operators of the engine.
HasRule(s, e) ==
    \E i \in DOMAIN state_transitions :
        state_transitions[i].from_state = s /\ state_transitions[i].event = e

IsPrefix(p, q) == Len(p) <= Len(q) /\ SubSeq(q, 1, Len(p)) = p

\* The step is a call of tick().
TickStep == last'.op = "process"
\* The step is a call of postEvent by a task (start posts INIT_DONE).
PostStep == last'.op \in {"post", "start"}
\* The tick of this step dequeues an event / makes a transition.
TickDequeues == TickStep /\ is_running /\ event_queue # <<>>
TickMoves == TickDequeues /\ HasRule(current_state, Head(event_queue))

ErrorStates ==
    {FSM_STATE_CALIBRATION_ERROR, FSM_STATE_HEATING_ERROR, FSM_STATE_DATA_ERROR}

\* Invocations of one kind of hook recorded in observation l.
CallsOf(l, kind) == SelectSeq(l.hooks, LAMBDA r : r.kind = kind)

\* The execution context as the engine left it after the event part of the
\* tick observed in l: what the execute hook saw on entry or, when no
\* execute hook ran, the context at the end of the tick.
ContextAfterEvent(l, ctx) ==
    IF CallsOf(l, "on_execute") # <<>>
    THEN CallsOf(l, "on_execute")[1].seen_context
    ELSE ctx

\* ------------------------------------------------------------------------
\* C1 (as stated): a tick that dequeues an event e for which the current
\* state s has no rule leaves current_state = s, consumes e, and changes
\* neither the statistics nor the execution context.
C1_AsStated ==
    [][ (TickDequeues /\ ~HasRule(current_state, Head(event_queue)))
          => /\ current_state' = current_state
             /\ IsPrefix(Tail(event_queue), event_queue')
             /\ statistics' = statistics
             /\ exec_context' = exec_context ]_vars

\* C1 (amended): such a tick leaves current_state = s, consumes e, calls no
\* exit or enter hook, changes no statistics, and leaves the execution
\* context untouched up to the call of the execute hook of s; only that
\* hook, which still runs on this tick, may write the context.
C1_InvalidEventDiscarded ==
    [][ (TickDequeues /\ ~HasRule(current_state, Head(event_queue)))
          => /\ current_state' = current_state
             /\ previous_state' = previous_state
             /\ IsPrefix(Tail(event_queue), event_queue')
             /\ statistics' = statistics
             /\ state_enter_time' = state_enter_time
             /\ ContextAfterEvent(last', exec_context') = exec_context
             /\ \A i \in DOMAIN last'.hooks :
                    /\ last'.hooks[i].kind = "on_execute"
                    /\ last'.hooks[i].state = current_state ]_vars

\* Witness C1: a tick in Calibration, with statistics enabled and a context
\* written by earlier hooks, received an event and made no transition.
C1_Witness ==
    /\ last.op = "process" /\ last.got /\ ~last.ret
    /\ current_state = FSM_STATE_CALIBRATION
    /\ config.enable_statistics
    /\ CallsOf(last, "on_execute") # <<>>
    /\ CallsOf(last, "on_execute")[1].seen_context.iteration_count > 0


\* ------------------------------------------------------------------------
\* C2: the queue never holds more than 10 events; a post on a queue holding
\* 10 returns false and leaves the queue as it is; a post of a valid event
\* on a queue holding fewer than 10 returns true and puts exactly that
\* event at the tail.
C2_QueueBounded ==
    [][ /\ Len(event_queue') <= 10
        /\ PostStep =>
             /\ Len(event_queue) >= 10
                  => (~last'.ret /\ event_queue' = event_queue)
             /\ (Len(event_queue) < 10 /\ last'.arg \in Events)
                  => (last'.ret /\ event_queue' = Append(event_queue, last'.arg)) ]_vars

\* Witness C2: a post of a valid event was refused on a queue of 10.
C2_Witness ==
    /\ last.op = "post" /\ ~last.ret /\ last.arg \in Events
    /\ Len(event_queue) = 10

\* ------------------------------------------------------------------------
\* C3: a tick dequeues at most one event, the one at the head, and acts on
\* it; a successful post puts its event behind every event already queued,
\* and nothing else reorders or removes events - so events leave the queue
\* in the order in which their posts succeeded, also when tasks and hooks
\* post while a tick runs.
C3_Fifo ==
    [][ /\ TickStep =>
             IF TickDequeues
             THEN /\ IsPrefix(Tail(event_queue), event_queue')
                  /\ current_state' =
                        IF HasRule(current_state, Head(event_queue))
                        THEN (CHOOSE t \in States :
                                \E i \in DOMAIN state_transitions :
                                    /\ state_transitions[i].from_state = current_state
                                    /\ state_transitions[i].event = Head(event_queue)
                                    /\ state_transitions[i].to_state = t)
                        ELSE current_state
             ELSE /\ IsPrefix(event_queue, event_queue')
                  /\ ~is_running => event_queue' = event_queue
                  /\ current_state' = current_state
        /\ PostStep =>
             event_queue' = IF last'.ret THEN Append(event_queue, last'.arg)
                            ELSE event_queue
        /\ (~TickStep /\ ~PostStep) => event_queue' = event_queue ]_vars

\* Witness C3: a tick received an event while a backlog of two different
\* events was waiting behind it, and a hook of that tick posted.
C3_Witness ==
    /\ last.op = "process" /\ last.got
    /\ Len(event_queue) >= 3
    /\ event_queue[1] # event_queue[2]
    /\ last.hooks # <<>>

\* ------------------------------------------------------------------------
\* C4 (as stated): every tick calls the execute hook registered for the
\* state that is current after the tick's event processing exactly once.
C4_AsStated ==
    [][ (TickStep /\ current_state' \in callbacks.on_execute)
          => /\ Len(CallsOf(last', "on_execute")) = 1
             /\ CallsOf(last', "on_execute")[1].state = current_state' ]_vars

\* C4 (amended): every tick of a running controller calls the execute hook
\* registered for the state that is current after the tick's event
\* processing exactly once, and the execute hook of no other state; a tick
\* of a controller that is not running calls no hook.
C4_ExecuteOncePerTick ==
    [][ TickStep =>
          IF is_running
          THEN /\ current_state' \in callbacks.on_execute
                    => /\ Len(CallsOf(last', "on_execute")) = 1
                       /\ CallsOf(last', "on_execute")[1].state = current_state'
                       /\ CallsOf(last', "on_execute")[1].seen_state = current_state'
               /\ current_state' \notin callbacks.on_execute
                    => CallsOf(last', "on_execute") = <<>>
          ELSE last'.hooks = <<>> ]_vars

\* Witness C4: a tick made a transition and ran the execute hook of the
\* state it entered.
C4_Witness ==
    /\ last.op = "process" /\ last.ret
    /\ current_state # previous_state
    /\ Len(CallsOf(last, "on_execute")) = 1
    /\ CallsOf(last, "on_execute")[1].state = current_state

\* ------------------------------------------------------------------------
\* C5: once current_state is Lock it stays Lock; from CalibrationError,
\* HeatingError and DataError the machine moves to Lock or not at all.
C5_LockTerminal ==
    [][ /\ current_state = FSM_STATE_LOCK => current_state' = FSM_STATE_LOCK
        /\ current_state \in ErrorStates
             => current_state' \in {current_state, FSM_STATE_LOCK} ]_vars

\* Witness C5: a tick in Lock received an event and the machine is still
\* in Lock.
C5_Witness ==
    /\ current_state = FSM_STATE_LOCK
    /\ last.op = "process" /\ last.got /\ ~last.ret

\* ------------------------------------------------------------------------
\* C6: with statistics enabled, a transition a -> b adds exactly 1 to
\* state_enter_count[b] and leaves the count of every other state.
C6_EnterCount ==
    [][ (TickMoves /\ config.enable_statistics)
          => statistics'.state_enter_count =
               [statistics.state_enter_count EXCEPT ![current_state'] = @ + 1] ]_vars

\* Witness C6: with statistics enabled a transition entered a state for
\* the second time.
C6_Witness ==
    /\ last.op = "process" /\ last.ret
    /\ config.enable_statistics
    /\ statistics.state_enter_count[current_state] = 2

\* ------------------------------------------------------------------------
\* C7 (as stated): a tick adds 1 to task_completed_count if and only if it
\* makes the transition NormalExit -> Idle, and leaves it otherwise.
C7_AsStated ==
    [][ TickStep =>
          statistics'.task_completed_count =
            IF TickMoves /\ current_state = FSM_STATE_NORMAL_EXIT
                         /\ current_state' = FSM_STATE_IDLE
            THEN statistics.task_completed_count + 1
            ELSE statistics.task_completed_count ]_vars

\* C7 (amended): with statistics enabled, a tick adds 1 to
\* task_completed_count if and only if it makes the transition
\* NormalExit -> Idle; with statistics disabled no tick changes it.
C7_TaskCompleted ==
    [][ TickStep =>
          statistics'.task_completed_count =
            IF /\ config.enable_statistics
               /\ TickMoves /\ current_state = FSM_STATE_NORMAL_EXIT
               /\ current_state' = FSM_STATE_IDLE
            THEN statistics.task_completed_count + 1
            ELSE statistics.task_completed_count ]_vars

\* Witness C7: the transition NormalExit -> Idle was counted.
C7_Witness ==
    /\ last.op = "process" /\ last.ret
    /\ previous_state = FSM_STATE_NORMAL_EXIT /\ current_state = FSM_STATE_IDLE
    /\ config.enable_statistics
    /\ statistics.task_completed_count = 1

\* ------------------------------------------------------------------------
\* Entries into the three error states and Lock, as state_enter_count has
\* them.
ErrorEntries(st) ==
    st.state_enter_count[FSM_STATE_CALIBRATION_ERROR]
    + st.state_enter_count[FSM_STATE_HEATING_ERROR]
    + st.state_enter_count[FSM_STATE_DATA_ERROR]
    + st.state_enter_count[FSM_STATE_LOCK]

\* C8 (as stated): a transition into CalibrationError, HeatingError,
\* DataError or Lock adds exactly 1 to error_count, a transition to any
\* other state leaves it.
C8_AsStated ==
    [][ TickMoves =>
          statistics'.error_count =
            IF current_state' \in ErrorStates \cup {FSM_STATE_LOCK}
            THEN statistics.error_count + 1
            ELSE statistics.error_count ]_vars

\* C8 (amended): with statistics enabled, a transition into one of the four
\* states adds exactly 1 to error_count and a transition to any other state
\* leaves it, so error_count always equals the sum of state_enter_count
\* over the four states; with statistics disabled no transition changes it.
C8_ErrorCount ==
    [][ /\ TickMoves =>
             statistics'.error_count =
               IF /\ config.enable_statistics
                  /\ current_state' \in ErrorStates \cup {FSM_STATE_LOCK}
               THEN statistics.error_count + 1
               ELSE statistics.error_count
        /\ statistics'.error_count = ErrorEntries(statistics') ]_vars

\* Witness C8: with statistics enabled the machine went through an error
\* state into Lock and both entries were counted.
C8_Witness ==
    /\ last.op = "process" /\ last.ret
    /\ current_state = FSM_STATE_LOCK
    /\ config.enable_statistics
    /\ statistics.error_count = 2

\* ------------------------------------------------------------------------
\* C9: on a transition the enter hook of the new state starts on a reset
\* context (iteration_count 0, operation_complete false, user_context
\* null), whatever the hooks of the state left had stored; on a tick
\* without a transition the engine leaves the context as it was.
C9_ContextReset ==
    [][ TickStep =>
          IF TickMoves
          THEN /\ \A i \in DOMAIN last'.hooks :
                    last'.hooks[i].kind = "on_enter"
                      => /\ last'.hooks[i].seen_context.iteration_count = 0
                         /\ last'.hooks[i].seen_context.operation_complete = FALSE
                         /\ last'.hooks[i].seen_context.user_context = NULL
               /\ current_state' \in callbacks.on_enter
                    => Len(CallsOf(last', "on_enter")) = 1
          ELSE ContextAfterEvent(last', exec_context') = exec_context ]_vars

\* Witness C9: a transition left a state whose hooks had written every
\* field of the context (the exit hook still saw them), and the enter hook
\* of the new state ran.
C9_Witness ==
    /\ last.op = "process" /\ last.ret
    /\ CallsOf(last, "on_enter") # <<>>
    /\ CallsOf(last, "on_exit") # <<>>
    /\ CallsOf(last, "on_exit")[1].seen_context.iteration_count > 0
    /\ CallsOf(last, "on_exit")[1].seen_context.operation_complete
    /\ CallsOf(last, "on_exit")[1].seen_context.user_context # NULL

\* ------------------------------------------------------------------------
\* C10: the target of an axis is never negative; setTargetPosition(v) on an
\* initialised axis stores v, or 0 when v < 0, and changes nothing else.
C10_TargetNonNegative ==
    [][ /\ target_position_' >= 0
        /\ (axis_call'.op = "setTargetPosition" /\ handle_)
             => /\ target_position_' = IF axis_call'.arg < 0 THEN 0 ELSE axis_call'.arg
                /\ position_' = position_ ]_vars

\* Witness C10: setTargetPosition was called with a negative value on an
\* axis that is away from 0, and the target is 0.
C10_Witness ==
    /\ axis_call.op = "setTargetPosition" /\ axis_call.arg < 0
    /\ handle_
    /\ position_ # 0
    /\ target_position_ = 0

\* ------------------------------------------------------------------------
\* Vocabulary of the axis properties.

\* A step made by a returning call of stepMultipleToTarget.
AdvanceStep == axis_call'.op = "stepMultipleToTarget" /\ handle_

\* ------------------------------------------------------------------------
\* C11 (as stated): one stepMultipleToTarget(max_steps) call changes the
\* position by at most min(|target - position|, max_steps), for either
\* positive direction; at the target it changes nothing.  Stated for the
\* calls made with the limit switch not triggered, where the position
\* counter follows the steps.
C11_AsStated ==
    [][ (AdvanceStep /\ ~isEndpointReached) =>
          /\ Abs(position_' - position_)
                <= Min(Abs(target_position_ - position_), axis_call'.arg)
          /\ (position_ = target_position_) => (position_' = position_) ]_vars

\* ------------------------------------------------------------------------
\* C12 (as stated): with the limit switch not triggered, every
\* stepMultipleToTarget(max_steps) call with max_steps >= 1 made off the
\* target brings the position strictly nearer to the target and never past
\* it, so that finitely many calls reach it.
C12_AsStated ==
    [][ (AdvanceStep /\ axis_call'.arg >= 1 /\ ~isEndpointReached
           /\ position_ # target_position_)
          => /\ Abs(target_position_ - position_')
                   < Abs(target_position_ - position_)
             /\ (position_ < target_position_) => (position_' <= target_position_)
             /\ (position_ > target_position_) => (position_' >= target_position_) ]_vars

\* ------------------------------------------------------------------------
\* C13 (as stated): when calibrate() returns, the position is 0 and the
\* enabled flag is the one the call found.
C13_AsStated ==
    [][ (calibrating /\ ~calibrating')
          => /\ position_' = 0
             /\ hal_is_enabled' = (axis_call.arg = 1) ]_vars

\* ------------------------------------------------------------------------
\* C14 (as stated): on an axis without a limit switch calibrate() returns
\* at once: no burst is stepped, position and target are left as they are.
C14_AsStated ==
    [][ (axis_call'.op = "calibrate" /\ ~has_endpoint /\ handle_)
          => /\ ~calibrating'
             /\ calib_bursts' = calib_bursts
             /\ position_' = position_
             /\ target_position_' = target_position_ ]_vars

\* ------------------------------------------------------------------------
\* C15: under any sequence of heater operations and readings the duty
\* cycle stays within [0, 100] percent and the integral within [-50, 50].
C15_DutyAndIntegralBounded ==
    /\ POWER_MIN <= current_power_pct /\ current_power_pct <= 100 * GAIN_SCALE
    /\ -50 <= pid_integral /\ pid_integral <= 50

\* An update whose reading drove the power and the integral to their upper
\* limits.
C15_Witness ==
    /\ iron_call.op = "update_control" /\ iron_call.arg = 0
    /\ iron_is_enabled
    /\ current_power_pct = 100 * GAIN_SCALE
    /\ pid_integral = 50

\* ------------------------------------------------------------------------
\* C16: while the heater is disabled the duty given to the PWM hardware is
\* 0: set_enable(false) leaves it 0, and so does every later call.
C16_DisabledMeansNoDuty ==
    [][ /\ ~iron_is_enabled' => pwm_duty' = 0
        /\ (iron_call'.op = "set_enable" /\ iron_call'.arg = 0 /\ iron_handle)
             => (~iron_is_enabled' /\ pwm_duty' = 0) ]_vars

\* set_power with a positive duty on a disabled heater.
C16_Witness ==
    /\ iron_call.op = "set_power" /\ iron_call.arg = 50 * GAIN_SCALE
    /\ ~iron_is_enabled
    /\ current_power_pct > 0
    /\ pwm_duty = 0

\* ------------------------------------------------------------------------
\* C17: set_target_temperature(t) stores t limited to [min_temperature,
\* max_temperature]; integral and last error are zeroed when that value
\* differs from the target held, and kept when it equals it.
C17_Retarget ==
    [][ (iron_call'.op = "set_target_temperature" /\ iron_handle)
          => LET t == iron_call'.arg
                 c == IF t < MIN_TEMPERATURE THEN MIN_TEMPERATURE
                      ELSE IF t > MAX_TEMPERATURE THEN MAX_TEMPERATURE ELSE t
             IN /\ target_temperature' = c
                /\ IF c # target_temperature
                   THEN pid_integral' = 0 /\ pid_last_error' = 0
                   ELSE /\ pid_integral' = pid_integral
                        /\ pid_last_error' = pid_last_error ]_vars

\* A call above the band that met the target already held, with the
\* regulator's sums in use.
C17_Witness ==
    /\ iron_call.op = "set_target_temperature" /\ iron_call.arg > MAX_TEMPERATURE
    /\ target_temperature = MAX_TEMPERATURE
    /\ pid_integral # 0
    /\ pid_last_error # 0

\* ------------------------------------------------------------------------
\* C18: the line "G0 X<a> Y<b>" parses to a move with x = a, y = b and no
\* Z marker; "S<n>" with n > 0 parses to a solder feed of amount n; a G1,
\* G4, G28 or M line yields no command.
C18_ParseLine ==
    (gcode_call.op = "parse_line") =>
        /\ \A a, b \in CoordInputs :
              (gcode_call.arg = MoveLine(a, b)) =>
                  /\ gcode_call.ok
                  /\ gcode_call.cmd.type = GCODE_CMD_MOVE
                  /\ gcode_call.cmd.has_x /\ gcode_call.cmd.x = a * VALUE_SCALE
                  /\ gcode_call.cmd.has_y /\ gcode_call.cmd.y = b * VALUE_SCALE
                  /\ ~gcode_call.cmd.has_z
        /\ \A n \in AmountInputs :
              (gcode_call.arg = FeedLine(n)) =>
                  /\ gcode_call.ok
                  /\ gcode_call.cmd.type = GCODE_CMD_FEED_SOLDER
                  /\ gcode_call.cmd.has_s /\ gcode_call.cmd.s = n
        /\ (\/ gcode_call.arg \in IgnoredLines
            \/ At(gcode_call.arg) \in {"M", "m"})
              => (~gcode_call.ok /\ gcode_call.cmd.type = GCODE_CMD_NONE)

\* A move line with a negative and a two-digit coordinate was parsed.
C18_Witness ==
    /\ gcode_call.op = "parse_line"
    /\ gcode_call.arg = MoveLine(-3, 25)
    /\ gcode_call.ok
    /\ gcode_call.cmd.x = -3 * VALUE_SCALE

\* ------------------------------------------------------------------------
\* The lines of a program as its text has them, whatever their length.
LineEnd(buf, pos) ==
    LET ends == {i \in (pos + 1) .. Len(buf) : buf[i] \in {LF, CR}} IN
    IF ends = {} THEN Len(buf) ELSE MinOf(ends) - 1

LineAt(buf, pos) == SubSeq(buf, pos + 1, LineEnd(buf, pos))

AfterLine(buf, pos) ==
    LET e == LineEnd(buf, pos) IN
    IF e >= Len(buf) THEN Len(buf)
    ELSE IF buf[e + 1] = CR /\ e + 1 < Len(buf) /\ buf[e + 2] = LF THEN e + 2
    ELSE e + 1

\* A line that parses to a move with an axis or to a feed with a positive
\* amount.
IsValidLine(line) ==
    LET p == gcode_parser_parse_line(line) IN
    /\ p.ok
    /\ \/ p.cmd.type = GCODE_CMD_MOVE /\ (p.cmd.has_x \/ p.cmd.has_y \/ p.cmd.has_z)
       \/ p.cmd.type = GCODE_CMD_FEED_SOLDER /\ p.cmd.has_s /\ p.cmd.s > 0

\* The first valid line at or after position pos.
RECURSIVE NextValidLine(_, _)
NextValidLine(buf, pos) ==
    IF pos >= Len(buf)
    THEN [found |-> FALSE, cmd |-> EmptyCommand, next |-> pos]
    ELSE IF IsValidLine(LineAt(buf, pos))
    THEN [found |-> TRUE, cmd |-> gcode_parser_parse_line(LineAt(buf, pos)).cmd,
          next |-> AfterLine(buf, pos)]
    ELSE NextValidLine(buf, AfterLine(buf, pos))

\* C19 (as stated): each get_next_command call returns the command of the
\* next valid line of the program, skipping every other line, and returns
\* no command only when no valid line remains.
C19_AsStated ==
    [][ (gcode_call'.op = "get_next_command" /\ is_loaded)
          => LET n == NextValidLine(program_buffer, current_position) IN
             /\ gcode_call'.ok = n.found
             /\ n.found => /\ gcode_call'.cmd = n.cmd
                           /\ current_position' = n.next ]_vars

\* ------------------------------------------------------------------------
\* The results of the get_next_command calls from a parser state on: each
\* command with the line number read after it, up to the first call that
\* returns none.
RECURSIVE RemainingResults(_, _, _)
RemainingResults(buf, pos, line_no) ==
    LET r == get_next_command(buf, pos, line_no, EmptyCommand) IN
    IF r.ok
    THEN <<[cmd |-> r.cmd, line |-> r.line_no]>>
             \o RemainingResults(buf, r.pos, r.line_no)
    ELSE <<[cmd |-> EmptyCommand, line |-> r.line_no]>>

\* C20: after reset(), at any point of an iteration, the commands and line
\* numbers returned from then on are those returned after a fresh load of
\* the same buffer.
C20_ResetRestarts ==
    [][ (gcode_call'.op = "reset" /\ is_loaded)
          => /\ is_loaded'
             /\ RemainingResults(program_buffer', current_position', current_line')
                   = RemainingResults(program_buffer, 0, 0) ]_vars

\* A reset in the middle of a program of several commands.
C20_Witness ==
    /\ gcode_call.op = "reset"
    /\ is_loaded
    /\ gcode_call.arg[1] > 0 /\ gcode_call.arg[1] < Len(program_buffer)
    /\ Len(RemainingResults(program_buffer, current_position, current_line)) > 2

\* ------------------------------------------------------------------------
\* The hooks a tick from state a to state b calls, in the order of the
\* engine's description: exit of a, enter of b, execute of b.
HooksOfMove(a, b) ==
    (IF a \in callbacks["on_exit"] THEN << <<"on_exit", a>> >> ELSE <<>>)
      \o (IF b \in callbacks["on_enter"] THEN << <<"on_enter", b>> >> ELSE <<>>)
      \o (IF b \in callbacks["on_execute"] THEN << <<"on_execute", b>> >> ELSE <<>>)

\* C28: on a tick that performs a transition a -> b the hooks run in the
\* order exit(a), enter(b), execute(b); exit(a) observes the state a and
\* the context not yet reset, enter(b) observes the state b, the reset
\* context and the updated statistics; whatever the hooks return, the
\* resulting state is the rule's target and the statistics are the updated
\* ones.
C28_HookOrder ==
    [][ (last'.op = "process" /\ last'.ret) =>
          LET a == current_state
              b == current_state'
              hk == last'.hooks
          IN /\ [i \in DOMAIN hk |-> <<hk[i].kind, hk[i].state>>] = HooksOfMove(a, b)
             /\ \E i \in DOMAIN state_transitions :
                    /\ state_transitions[i].from_state = a
                    /\ state_transitions[i].event = Head(event_queue)
                    /\ state_transitions[i].to_state = b
             /\ statistics'.state_enter_count[b]
                    = statistics.state_enter_count[b]
                        + (IF config.enable_statistics THEN 1 ELSE 0)
             /\ \A i \in DOMAIN hk :
                    /\ hk[i].kind = "on_exit" =>
                          /\ hk[i].seen_state = a
                          /\ hk[i].seen_context = exec_context
                          /\ hk[i].seen_statistics = statistics
                    /\ hk[i].kind = "on_enter" =>
                          /\ hk[i].seen_state = b
                          /\ hk[i].seen_context.start_time_ms = now
                          /\ hk[i].seen_context.iteration_count = 0
                          /\ ~hk[i].seen_context.operation_complete
                          /\ hk[i].seen_context.user_context = 0
                          /\ hk[i].seen_statistics = statistics' ]_vars

\* A transition whose exit and enter hooks both returned failure, the exit
\* hook having seen a context in use.
C28_Witness ==
    /\ last.op = "process" /\ last.ret
    /\ Len(last.hooks) = 3
    /\ ~last.hooks[1].returned /\ ~last.hooks[2].returned
    /\ last.hooks[1].seen_context.iteration_count > 0
    /\ config.enable_statistics


\* ------------------------------------------------------------------------
\* C22.  In point-list mode, with a list of N >= 0 points with non-negative
\* coordinates, repeated ticks take the sequencer from sub-state to
\* sub-state along MoveToPoint -> MoveDown -> Soldering -> MoveUp for each
\* point, then ReturnHome -> Complete (Idle -> ReturnHome -> Complete for
\* the empty list); Complete is reached with the completed-point count
\* equal to N and is never left.
\* ------------------------------------------------------------------------
SubStateEdges ==
    { <<EXEC_STATE_IDLE, EXEC_STATE_MOVE_TO_POINT>>,
      <<EXEC_STATE_IDLE, EXEC_STATE_RETURN_HOME>>,
      <<EXEC_STATE_MOVE_TO_POINT, EXEC_STATE_MOVE_DOWN>>,
      <<EXEC_STATE_MOVE_DOWN, EXEC_STATE_SOLDERING>>,
      <<EXEC_STATE_SOLDERING, EXEC_STATE_MOVE_UP>>,
      <<EXEC_STATE_MOVE_UP, EXEC_STATE_MOVE_TO_POINT>>,
      <<EXEC_STATE_MOVE_UP, EXEC_STATE_RETURN_HOME>>,
      <<EXEC_STATE_RETURN_HOME, EXEC_STATE_COMPLETE>> }

RunComplete ==
    /\ exec_sub_fsm.sub_state = EXEC_STATE_COMPLETE
    /\ exec_sub_fsm.solder_points_completed = Len(points)

C23_IndexMonotone ==
    [][ /\ exec_sub_fsm'.current_point_index <= Len(points')
        /\ exec_sub_fsm'.current_point_index >= 0
        /\ machine_call'.op # "init"
              => exec_sub_fsm'.current_point_index >= exec_sub_fsm.current_point_index
        /\ machine_call'.op = "init" => exec_sub_fsm'.current_point_index = 0 ]_vars

\* The second run on a machine has worked through a list of two points.
C23_Witness ==
    /\ machine_call.run = 2
    /\ Len(points) = 2
    /\ exec_sub_fsm.current_point_index = Len(points)
    /\ exec_sub_fsm.sub_state = EXEC_STATE_COMPLETE

OnlyComments(buf) ==
    \A i \in 1 .. Len(buf) : (i = 1 \/ buf[i - 1] = LF) => buf[i] = ";"

IsXY(entry) == entry.motor \in {"x", "y"}

\* A Z step issued from the safe height: the lowering.
IsLowering(entry, cfg) == entry.motor = "z" /\ entry.z = cfg.safe_z_height

Posted(e) == \E i \in DOMAIN tick_io.posted : tick_io.posted[i] = e
PostedNext(e) == \E i \in DOMAIN tick_io'.posted : tick_io'.posted[i] = e

\* The counters of the axes and the parser's place in its program.
AxisPositions == [n \in MotorNames |-> motors[n].position]
ProgramPlace == <<program_buffer, current_position, current_line, is_loaded>>

\* The step changes no axis counter, issues no step and pulls no command.
MachineRests ==
    /\ AxisPositions' = AxisPositions
    /\ ProgramPlace' = ProgramPlace
    /\ machine_call'.trace = <<>>
    /\ ~machine_call'.pulled

\* ------------------------------------------------------------------------
\* C27: a PAUSE_REQUEST posted while the machine is Executing only joins
\* the queue: the post changes neither the state nor the machine; the
\* machine leaves Executing for Paused only on the tick that dequeues the
\* request; and on that tick and on every later tick that ends in Paused no
\* axis counter changes, no step is issued and no command is pulled.
C27_PauseAtTickStart ==
    [][ /\ (PostStep /\ last'.arg = FSM_EVENT_PAUSE_REQUEST
               /\ current_state = FSM_STATE_EXECUTING)
            => /\ current_state' = current_state
               /\ event_queue' = Append(event_queue, FSM_EVENT_PAUSE_REQUEST)
               /\ motors' = motors
               /\ exec_sub_fsm' = exec_sub_fsm
               /\ ProgramPlace' = ProgramPlace
        /\ (current_state = FSM_STATE_EXECUTING /\ current_state' = FSM_STATE_PAUSED)
            => (TickDequeues /\ Head(event_queue) = FSM_EVENT_PAUSE_REQUEST)
        /\ (TickStep /\ current_state' = FSM_STATE_PAUSED) => MachineRests ]_vars

\* Reached: a program paused after its first command and before its last,
\* and a tick made while Paused.
C27_Witness ==
    /\ current_state = FSM_STATE_PAUSED
    /\ previous_state = FSM_STATE_EXECUTING
    /\ last.op = "process" /\ ~last.ret
    /\ exec_sub_fsm.solder_points_completed > 0
    /\ is_loaded /\ current_position < Len(program_buffer)

\* ------------------------------------------------------------------------
\* C29 (as stated): a tick whose execute hook runs in Heating or Executing
\* and whose temperature read fails posts HEATING_ERROR.
C29_AsStated ==
    ( /\ last.op = "process"
      /\ current_state \in {FSM_STATE_HEATING, FSM_STATE_EXECUTING}
      /\ tick_io.reading = read_error_temperature )
        => Posted(FSM_EVENT_HEATING_ERROR)

\* ------------------------------------------------------------------------
\* The machine is in Executing after an entry that found no program or
\* could not load it.
FailedEntry ==
    current_state = FSM_STATE_EXECUTING /\ tick_io.failed_run = machine_call.run

\* The step changes no axis counter, issues no step and pulls no command
\* (an entry into Executing may still drop the parser of the run before).
NothingExecuted ==
    /\ AxisPositions' = AxisPositions
    /\ machine_call'.trace = <<>>
    /\ ~machine_call'.pulled

\* The parts of C30 that do not depend on what is dequeued: the tick of a
\* failed entry posts DATA_ERROR; on it and on every later tick of that
\* entry nothing moves, no command is pulled and TASK_DONE is not posted.
FailedEntryRests ==
    /\ (TickStep /\ current_state # FSM_STATE_EXECUTING /\ FailedEntry')
           => PostedNext(FSM_EVENT_DATA_ERROR)
    /\ (TickStep /\ FailedEntry')
           => (NothingExecuted /\ ~PostedNext(FSM_EVENT_TASK_DONE))
    /\ (TickStep /\ FailedEntry /\ FailedEntry') => MachineRests

\* C30 (as stated): ... and the tick that dequeues DATA_ERROR takes the
\* machine to DataError.
C30_AsStated ==
    [][ /\ FailedEntryRests
        /\ (TickDequeues /\ Head(event_queue) = FSM_EVENT_DATA_ERROR)
              => current_state' = FSM_STATE_DATA_ERROR ]_vars

\* C30 (amended): ... and the tick that dequeues DATA_ERROR takes the
\* machine to DataError if it is still Executing; where an earlier event
\* of the queue has moved it to Paused, the DATA_ERROR is discarded.
C30_DataError ==
    [][ /\ FailedEntryRests
        /\ (TickDequeues /\ Head(event_queue) = FSM_EVENT_DATA_ERROR)
              => current_state' = IF current_state = FSM_STATE_EXECUTING
                                  THEN FSM_STATE_DATA_ERROR
                                  ELSE current_state ]_vars

\* Reached: DataError entered from an entry that found no buffer.
C30_Witness ==
    /\ current_state = FSM_STATE_DATA_ERROR
    /\ previous_state = FSM_STATE_EXECUTING
    /\ last.op = "process" /\ last.ret
    /\ tick_io.failed_run = machine_call.run
    /\ no_gcode_in_ram(g_gcode)

C24_AsStated == tasks.access.held /\ ~tasks.access.stale

\* ------------------------------------------------------------------------
\* C33 (as stated): the colour reported for the state the controller is in
\* is that of the state's documented class (standby yellow, process green,
\* error red, Init ash, ManualControl other), and every state for which
\* is_in_error holds is reported red.
DocumentedColor(state) ==
    CASE state \in {FSM_STATE_IDLE, FSM_STATE_READY, FSM_STATE_PAUSED,
                    FSM_STATE_NORMAL_EXIT} -> FSM_COLOR_YELLOW
      [] state \in {FSM_STATE_CALIBRATION, FSM_STATE_HEATING,
                    FSM_STATE_EXECUTING} -> FSM_COLOR_GREEN
      [] state \in {FSM_STATE_CALIBRATION_ERROR, FSM_STATE_HEATING_ERROR,
                    FSM_STATE_DATA_ERROR, FSM_STATE_LOCK} -> FSM_COLOR_RED
      [] state = FSM_STATE_INIT -> FSM_COLOR_ASH
      [] OTHER -> FSM_COLOR_OTHER

C33_AsStated ==
    /\ fsm_controller_get_state_color(current_state) = DocumentedColor(current_state)
    /\ fsm_controller_is_in_error(current_state)
          => fsm_controller_get_state_color(current_state) = FSM_COLOR_RED

\* ------------------------------------------------------------------------
\* C31 (as stated): in point-list mode every X or Y step of a MoveToPoint
\* tick is issued with Z at the safe height.
C31_AsStated ==
    [][ (machine_call'.op = "process"
            /\ exec_sub_fsm.sub_state = EXEC_STATE_MOVE_TO_POINT)
          => \A i \in DOMAIN machine_call'.trace :
                IsXY(machine_call'.trace[i])
                  => machine_call'.trace[i].z = exec_sub_fsm.config.safe_z_height ]_vars

\* ------------------------------------------------------------------------
\* C38 (as stated): in point-list mode a tick made in a sub-state other
\* than Soldering leaves the position and the target of the feed axis as
\* they were.
C38_AsStated ==
    [][ (machine_call'.op = "process"
            /\ exec_sub_fsm.sub_state # EXEC_STATE_SOLDERING)
          => /\ motors'["s"].position = motors["s"].position
             /\ motors'["s"].target = motors["s"].target ]_vars

\* ------------------------------------------------------------------------
\* C32 (as stated): a stepMultipleToTarget call changes the position
\* counter by the number of pulses the driver emitted in the call, counted
\* positive clockwise and negative counter-clockwise; with the driver
\* disabled the counter does not change.  Stated for the calls made with
\* the limit switch not triggered (a step that moves the switch is none).
PulsesOfCall ==
    LET remaining == target_position_ - position_
    IN IF remaining = 0 THEN 0
       ELSE hal_step_multiple_pulses(hal_is_enabled,
                steps_to_execute(remaining, axis_call'.arg))

C32_AsStated ==
    [][ (AdvanceStep /\ switch_low' = switch_low /\ ~isEndpointReached)
          => /\ position_' - position_ =
                  IF hal_direction' = STEPPER_DIR_CLOCKWISE
                  THEN PulsesOfCall ELSE -PulsesOfCall
             /\ ~hal_is_enabled => position_' = position_ ]_vars


\* C35 as stated: outside Heating and Executing, once the tick that
\* entered the state (and ran its enter hook, if one is registered) is
\* over, the heater is disabled and the duty applied to it is 0.
C35_AsStated ==
    current_state \notin {FSM_STATE_HEATING, FSM_STATE_EXECUTING}
        => (~iron_is_enabled /\ pwm_duty = 0)


\* The shared buffer is replaced by the step.
BufferReplaced == g_gcode' # g_gcode \/ heap' # heap

\* C34: while the machine is Executing, a step that replaces the shared
\* buffer leaves the sequencer's parser (its copy of the program and its
\* place in it) and the sequencer where they are; a tick that stays in
\* Executing keeps the copy, unless it is the tick that finishes the
\* program and releases the parser, and the command it hands to the
\* sequencer is the next one of that copy.
C34_OwnCopy ==
    [][ /\ (current_state = FSM_STATE_EXECUTING /\ BufferReplaced)
            => /\ ProgramPlace' = ProgramPlace
               /\ exec_sub_fsm' = exec_sub_fsm
               /\ motors' = motors
        /\ (TickStep /\ current_state = FSM_STATE_EXECUTING
                     /\ current_state' = FSM_STATE_EXECUTING)
            => /\ \/ program_buffer' = program_buffer
                  \/ (~is_loaded' /\ PostedNext(FSM_EVENT_TASK_DONE))
               /\ machine_call'.pulled
                    => machine_call'.cmd = pull_command(ParserState).cmd ]_vars

\* Executing, a command of the loaded program already handed over, the
\* shared buffer now holding another program, and more commands to come.
C34_Witness ==
    /\ current_state = FSM_STATE_EXECUTING
    /\ is_loaded
    /\ current_position > 0
    /\ current_position < Len(program_buffer)
    /\ g_gcode.buffer # NULL
    /\ heap[g_gcode.buffer].bytes # program_buffer


ReEntry ==
    /\ TickStep
    /\ current_state = FSM_STATE_HEATING
    /\ current_state' = FSM_STATE_EXECUTING
    /\ statistics.state_enter_count[FSM_STATE_PAUSED] > 0
    /\ machine_call'.loaded

\* The first command of the program in the shared buffer.
FirstCommand == pull_command(loaded_parser(gcode_argument(g_gcode, heap), g_gcode.size))

\* C36: the tick that re-enters Executing after Paused -> Heating loads
\* the program of the shared buffer anew and executes its first command:
\* after it the parser stands behind the first command, that command is
\* the one handed over, and the completed count is 1 (0 when the program
\* has no command), whatever was executed before the pause.
C36_Restart ==
    [][ ReEntry =>
          IF FirstCommand.ok
          THEN /\ program_buffer' = SubSeq(heap[g_gcode.buffer].bytes, 1, g_gcode.size)
               /\ current_position' = FirstCommand.pos
               /\ machine_call'.pulled
               /\ machine_call'.cmd = FirstCommand.cmd
               /\ exec_sub_fsm'.solder_points_completed = 1
          ELSE /\ ~machine_call'.pulled
               /\ exec_sub_fsm'.solder_points_completed = 0 ]_vars

\* Executing for the second time after a pause that came when both
\* commands of the program were done (the feed axis has moved): the
\* completed count is 1 again and the parser stands behind the first
\* command.
C36_Witness ==
    /\ current_state = FSM_STATE_EXECUTING
    /\ previous_state = FSM_STATE_HEATING
    /\ statistics.state_enter_count[FSM_STATE_PAUSED] = 1
    /\ machine_call.run = 2
    /\ machine_call.pulled
    /\ motors["s"].position > 0
    /\ exec_sub_fsm.solder_points_completed = 1
    /\ current_position > 0
    /\ current_position < Len(program_buffer)


\* The point the sequencer is at has a negative X or Y coordinate.
NegativePoint(p) == p.x < 0 \/ p.y < 0

AtNegativePoint ==
    /\ exec_sub_fsm.sub_state = EXEC_STATE_MOVE_TO_POINT
    /\ exec_sub_fsm.current_point_index < Len(points)
    /\ NegativePoint(points[exec_sub_fsm.current_point_index + 1])

GetNextStep == gcode_call'.op = "get_next_command" /\ is_loaded

NextCalls ==
    get_next_command(program_buffer, current_position, current_line, gcode_call.cmd)

\* Characters consumed by the i-th call (the call itself or a retry).
Consumed(r, i) == (IF i < Len(r.calls) THEN r.calls[i + 1] ELSE r.pos) - r.calls[i]

\* C40 as stated: every call, recursive retries included, consumes at
\* least one character, and current_position does not exceed buffer_size.
C40_AsStated ==
    [][ GetNextStep =>
          /\ \A i \in DOMAIN NextCalls.calls : Consumed(NextCalls, i) >= 1
          /\ current_position' <= Len(program_buffer') ]_vars

\* C40, amended: a call returns after at most buffer_size + 1 calls in
\* all; every call, recursive retries included, that finds
\* current_position below buffer_size consumes at least one character; a
\* call that finds the buffer exhausted consumes nothing, returns false
\* and is the last one; current_position does not exceed buffer_size.
C40_Terminates ==
    [][ GetNextStep =>
          /\ current_position' = NextCalls.pos
          /\ Len(NextCalls.calls) <= Len(program_buffer) + 1
          /\ \A i \in DOMAIN NextCalls.calls :
               IF NextCalls.calls[i] < Len(program_buffer)
               THEN Consumed(NextCalls, i) >= 1
               ELSE /\ Consumed(NextCalls, i) = 0
                    /\ i = Len(NextCalls.calls)
                    /\ ~NextCalls.ok
          /\ current_position' <= Len(program_buffer') ]_vars

\* A program whose last line fails validation, after the call that read
\* that line and retried at the end of the buffer.
C40_Witness ==
    /\ is_loaded
    /\ program_buffer = join_lines(<<MoveLine(10, 25), <<"S", "0">> >>)
    /\ gcode_call.op = "get_next_command"
    /\ ~gcode_call.ok
    /\ current_line = 2
    /\ current_position = Len(program_buffer)

====
